---- MODULE Spec2Model ----
(***************************************************************************)
(* A model of pkg/adapter/containers.go (LocalRuntime): the batch          *)
(* stop/kill/wait executors and the Run orchestrator.  The engine          *)
(* (libpod.Container, libpod.Runtime) is the environment: each engine call *)
(* returns one of the outcomes the engine can produce, chosen              *)
(* nondeterministically, and is recorded in the call log `calls`.          *)
(***************************************************************************)
EXTENDS Integers, Sequences, FiniteSets, TLC

\* ------------------------------------------------------------------ bounds
\* Largest number of containers in the runtime store.
MaxCtrs == 3
\* Largest number of positional references (cli.InputArgs) in a batch request.
MaxArgs == 2
\* Largest number of entries of --attach in a run request.
MaxAttach == 2
\* Largest number of positional references (c.InputArgs) in a log request.
MaxLogArgs == 2
\* Largest tail-line count (c.Tail) of a log request.
MaxTail == 2
\* Largest number of lines one container's log source emits.
MaxLines == 2

\* ------------------------------------------------------------------ errors
\* An error value: its root cause (errors.Cause) and its text (err.Error()).
NilErr == [cause |-> "nil", text |-> ""]
ErrCtrStopped == [cause |-> "ErrCtrStopped", text |-> "container is stopped"]
ErrCtrStoppedWrapped ==
    [cause |-> "ErrCtrStopped", text |-> "unable to stop: container is stopped"]
ErrCtrStateInvalid ==
    [cause |-> "ErrCtrStateInvalid", text |-> "container state improper"]
ErrNoSuchCtr == [cause |-> "ErrNoSuchCtr", text |-> "no such container"]
ErrNoSuchCtrWrapped ==
    [cause |-> "ErrNoSuchCtr", text |-> "error waiting: no such container"]
ErrInternal == [cause |-> "ErrInternal", text |-> "internal libpod error"]
ErrDetach == [cause |-> "ErrDetach", text |-> "detached from container"]
ErrDetachWrapped ==
    [cause |-> "ErrDetach", text |-> "attach ended: detached from container"]

\* errors.Cause(err): the root cause of a (possibly wrapped) error.
Cause(err) == err.cause

\* ------------------------------------------------------------------ strconv
Digits == <<"0", "1", "2", "3", "4", "5", "6", "7", "8", "9">>

RECURSIVE ItoaNat(_)
ItoaNat(n) ==
    IF n < 10 THEN Digits[n + 1]
    ELSE ItoaNat(n \div 10) \o Digits[(n % 10) + 1]

\* strconv.Itoa: the decimal text of an integer.
Itoa(n) == IF n < 0 THEN "-" \o ItoaNat(-n) ELSE ItoaNat(n)

\* ------------------------------------------------------------------ store
\* A container handle is a number 1..MaxCtrs; the store lists the handles in
\* creation order (the latest container is the last one).
Handles == 1..MaxCtrs
ID(h) == "c" \o ItoaNat(h)
Name(h) == "n" \o ItoaNat(h)
\* c.StopTimeout(): the container's own configured stop timeout; it differs
\* from container to container.
StopTimeout(h) == 10 * h + 1

Stores == {[i \in 1..n |-> i] : n \in 0..MaxCtrs}

\* What a positional argument may be: an id, a name, or a dangling reference.
Refs == {ID(h) : h \in Handles} \cup {Name(h) : h \in Handles} \cup {"missing"}

RECURSIVE SeqsUpTo(_, _)
SeqsUpTo(S, n) ==
    IF n = 0 THEN {<<>>}
    ELSE LET shorter == SeqsUpTo(S, n - 1)
         IN  shorter \cup {Append(s, x) : s \in {t \in shorter : Len(t) = n - 1}, x \in S}

Range(s) == {s[i] : i \in 1..Len(s)}

\* Runtime.LookupContainer(idOrName): the handle whose id or name it is.
LookupContainer(st, ref) ==
    LET found == {h \in Range(st) : ID(h) = ref \/ Name(h) = ref}
    IN  IF found = {} THEN [ctr |-> 0, err |-> ErrNoSuchCtr]
        ELSE [ctr |-> CHOOSE h \in found : TRUE, err |-> NilErr]

RECURSIVE LookupEach(_, _, _, _)
LookupEach(st, names, i, acc) ==
    IF i > Len(names) THEN [ctrs |-> acc, err |-> NilErr]
    ELSE LET r == LookupContainer(st, names[i])
         IN  IF r.err # NilErr THEN [ctrs |-> <<>>, err |-> r.err]
             ELSE LookupEach(st, names, i + 1, Append(acc, r.ctr))

\* shortcuts.GetContainersByContext(all, latest, names, runtime): the resolver.
GetContainersByContext(all, latest, names, st) ==
    IF latest
    THEN IF st = <<>> THEN [ctrs |-> <<>>, err |-> ErrNoSuchCtr]
         ELSE [ctrs |-> <<st[Len(st)]>>, err |-> NilErr]
    ELSE IF all THEN [ctrs |-> st, err |-> NilErr]
    ELSE LookupEach(st, names, 1, <<>>)

\* ------------------------------------------------------------------ state
VARIABLES
    store,      \* the runtime store: handles in creation order
    pc,         \* position of the call in flight: "idle", a step name, "done"
    op,         \* the method called: "none", "stop", "kill", "wait", "create", "run", "log"
    cli,        \* the request (cliconfig values) of the call
    ctrs,       \* the resolved handles of a batch call
    idx,        \* 1-based position of the batch loop in ctrs
    timeout,    \* StopContainers' `timeout *uint`
    ok,         \* the ok list of a batch call
    failures,   \* the failures map of a batch call (id -> error)
    ctxErr,     \* the `err` the resolver returned to a batch call
    retErr,     \* the error a call returns
    calls,      \* the engine calls made by the call in flight, in order
    exitCode,   \* Run's `exitCode`: its argument, then what it returns
    streams,    \* Run's outputStream, errorStream, inputStream (FALSE is nil)
    stdout,     \* what Run or Log printed on standard output
    fs,         \* the files under the runtime's temp directory when Run reads it
    retID,      \* the id CreateContainer returns
    logChannel, \* Log's logChannel: the lines sent and not yet received
    chanCap,    \* the capacity logChannel was made with
    closed,     \* logChannel was closed
    wg,         \* the counter of Log's sync.WaitGroup
    options,    \* Log's options (Multi)
    producers,  \* one record per container whose log source was opened
    replay,     \* lines the log source being opened has still to replay
    closer,     \* position of Log's closing goroutine
    printed,    \* the lines Log's consumer received, in order
    panicked    \* the call panicked: a send on the closed channel, a nil dereference

runVars == <<exitCode, streams, stdout, fs, retID>>
logVars == <<logChannel, chanCap, closed, wg, options, producers, replay, closer, printed,
             panicked>>
vars == <<store, pc, op, cli, ctrs, idx, timeout, ok, failures, ctxErr, retErr, calls,
          runVars, logVars>>

\* map[string]error{}
EmptyMap == [x \in {} |-> NilErr]
\* failures[id] = err
MapPut(m, k, v) == [x \in (DOMAIN m) \cup {k} |-> IF x = k THEN v ELSE m[x]]

\* `var timeout *uint`: nil, or a pointer to a value.
NilTimeout == [isNil |-> TRUE, v |-> 0]
PtrTimeout(t) == [isNil |-> FALSE, v |-> t]

NoStreams == [out |-> FALSE, err |-> FALSE, in |-> FALSE]
NoCli == [all |-> FALSE, latest |-> FALSE, InputArgs |-> <<>>]

Init ==
    /\ store \in Stores
    /\ pc = "idle"
    /\ op = "none"
    /\ cli = NoCli
    /\ ctrs = <<>>
    /\ idx = 0
    /\ timeout = NilTimeout
    /\ ok = <<>>
    /\ failures = EmptyMap
    /\ ctxErr = NilErr
    /\ retErr = NilErr
    /\ calls = <<>>
    /\ exitCode = 0
    /\ streams = NoStreams
    /\ stdout = ""
    /\ fs = {}
    /\ retID = ""
    /\ logChannel = <<>>
    /\ chanCap = 0
    /\ closed = FALSE
    /\ wg = 0
    /\ options = [Multi |-> FALSE]
    /\ producers = <<>>
    /\ replay = 0
    /\ closer = "none"
    /\ printed = <<>>
    /\ panicked = FALSE

\* The methods keep no state between calls, so a behaviour follows one call
\* from its entry to its return.
CanCall == pc = "idle"

\* One entry of the call log.
Call(fn, h, arg, err, code) ==
    [fn |-> fn, ctr |-> h, arg |-> arg, err |-> err, code |-> code]

\* ------------------------------------------------------------------ stop
\* A stop request.  cli.Timeout is the value of --timeout/--time when one of
\* them was given (here 0, the smallest), and the flag's default otherwise.
StopRequests ==
    {[all |-> a, latest |-> l, InputArgs |-> args, Timeout |-> f[3],
      changedTimeout |-> f[1], changedTime |-> f[2]] :
        a \in BOOLEAN, l \in BOOLEAN, args \in SeqsUpTo(Refs, MaxArgs),
        f \in {<<FALSE, FALSE, 10>>, <<TRUE, FALSE, 0>>, <<FALSE, TRUE, 0>>,
               <<TRUE, TRUE, 0>>}}

\* Outcomes of c.StopWithTimeout.
StopErrs == {NilErr, ErrCtrStopped, ErrCtrStoppedWrapped, ErrCtrStateInvalid}

\* Lines 59-63: the explicit timeout, if a flag set one.
\* Faulty variant: the --time alias is not consulted.
ExplicitTimeoutNoAlias(c) ==
    IF c.changedTimeout THEN PtrTimeout(c.Timeout) ELSE NilTimeout
\* The code:
ExplicitTimeout(c) ==
    IF c.changedTimeout \/ c.changedTime THEN PtrTimeout(c.Timeout) ELSE NilTimeout

\* Lines 76-80: the timeout used for container h, given the pointer so far.
StopTimeoutFor(t, h) == IF t.isNil THEN PtrTimeout(StopTimeout(h)) ELSE t

\* Lines 81-88: where the outcome of one stop is recorded.
\* Faulty variant: an already-stopped container counts as a failure.
StopRecordStrict(acc, h, err) ==
    IF err = NilErr THEN [ok |-> Append(acc.ok, ID(h)), failures |-> acc.failures]
    ELSE [ok |-> acc.ok, failures |-> MapPut(acc.failures, ID(h), err)]
\* The code:
StopRecord(acc, h, err) ==
    IF err = NilErr THEN [ok |-> Append(acc.ok, ID(h)), failures |-> acc.failures]
    ELSE IF Cause(err) = ErrCtrStopped.cause
         THEN [ok |-> Append(acc.ok, ID(h)), failures |-> acc.failures]
    ELSE [ok |-> acc.ok, failures |-> MapPut(acc.failures, ID(h), err)]

\* Lines 58-73: StopContainers up to the loop.
StopContainers ==
    /\ CanCall
    /\ \E c \in StopRequests :
        LET r == GetContainersByContext(c.all, c.latest, c.InputArgs, store)
        IN  /\ op' = "stop"
            /\ cli' = c
            /\ timeout' = ExplicitTimeout(c)
            /\ ok' = <<>>
            /\ failures' = EmptyMap
            /\ calls' = <<>>
            /\ idx' = 1
            /\ ctxErr' = r.err
            /\ IF r.err # NilErr
               THEN /\ ctrs' = <<>>
                    /\ retErr' = r.err
                    /\ pc' = "done"
               ELSE /\ ctrs' = r.ctrs
                    /\ retErr' = NilErr
                    /\ pc' = "loop"
    /\ UNCHANGED <<store, runVars, logVars>>

\* Lines 75-89: one iteration of the stop loop.
StopIter ==
    /\ op = "stop" /\ pc = "loop" /\ idx <= Len(ctrs)
    /\ \E err \in StopErrs :
        LET h == ctrs[idx]
            t == StopTimeoutFor(timeout, h)
            rec == StopRecord([ok |-> ok, failures |-> failures], h, err)
        IN  /\ timeout' = t
            /\ calls' = Append(calls, Call("StopWithTimeout", h, t.v, err, 0))
            /\ ok' = rec.ok
            /\ failures' = rec.failures
    /\ idx' = idx + 1
    /\ UNCHANGED <<store, pc, op, cli, ctrs, ctxErr, retErr, runVars, logVars>>

\* Line 90: return ok, failures, nil.
StopReturn ==
    /\ op = "stop" /\ pc = "loop" /\ idx > Len(ctrs)
    /\ retErr' = NilErr
    /\ pc' = "done"
    /\ UNCHANGED <<store, op, cli, ctrs, idx, timeout, ok, failures, ctxErr, calls, runVars, logVars>>

\* ------------------------------------------------------------------ kill
KillRequests ==
    [all : BOOLEAN, latest : BOOLEAN, InputArgs : SeqsUpTo(Refs, MaxArgs),
     signal : {9, 15}]

\* Outcomes of c.Kill.
KillErrs == {NilErr, ErrCtrStateInvalid, ErrNoSuchCtr}

\* Lines 107-111: where the outcome of one kill is recorded.
\* Faulty variant: a failed kill is recorded nowhere.
KillRecordDrop(acc, h, err) ==
    IF err = NilErr THEN [ok |-> Append(acc.ok, ID(h)), failures |-> acc.failures]
    ELSE acc
\* The code:
KillRecord(acc, h, err) ==
    IF err = NilErr THEN [ok |-> Append(acc.ok, ID(h)), failures |-> acc.failures]
    ELSE [ok |-> acc.ok, failures |-> MapPut(acc.failures, ID(h), err)]

\* Lines 95-104: KillContainers up to the loop.
KillContainers ==
    /\ CanCall
    /\ \E c \in KillRequests :
        LET r == GetContainersByContext(c.all, c.latest, c.InputArgs, store)
        IN  /\ op' = "kill"
            /\ cli' = c
            /\ ok' = <<>>
            /\ failures' = EmptyMap
            /\ calls' = <<>>
            /\ idx' = 1
            /\ ctxErr' = r.err
            /\ IF r.err # NilErr
               THEN /\ ctrs' = <<>>
                    /\ retErr' = r.err
                    /\ pc' = "done"
               ELSE /\ ctrs' = r.ctrs
                    /\ retErr' = NilErr
                    /\ pc' = "loop"
    /\ UNCHANGED <<store, timeout, runVars, logVars>>

\* Lines 106-112: one iteration of the kill loop.
\* Faulty variant: the first failed kill ends the batch and is returned.
KillIterAbort ==
    /\ op = "kill" /\ pc = "loop" /\ idx <= Len(ctrs)
    /\ \E err \in KillErrs :
        LET h == ctrs[idx]
            rec == KillRecord([ok |-> ok, failures |-> failures], h, err)
        IN  /\ calls' = Append(calls, Call("Kill", h, cli.signal, err, 0))
            /\ ok' = rec.ok
            /\ failures' = rec.failures
            /\ retErr' = err
            /\ pc' = IF err = NilErr THEN pc ELSE "done"
    /\ idx' = idx + 1
    /\ UNCHANGED <<store, op, cli, ctrs, timeout, ctxErr, runVars, logVars>>
\* The code:
KillIter ==
    /\ op = "kill" /\ pc = "loop" /\ idx <= Len(ctrs)
    /\ \E err \in KillErrs :
        LET h == ctrs[idx]
            rec == KillRecord([ok |-> ok, failures |-> failures], h, err)
        IN  /\ calls' = Append(calls, Call("Kill", h, cli.signal, err, 0))
            /\ ok' = rec.ok
            /\ failures' = rec.failures
    /\ idx' = idx + 1
    /\ UNCHANGED <<store, pc, op, cli, ctrs, timeout, ctxErr, retErr, runVars, logVars>>

\* Line 113: return ok, failures, nil.
KillReturn ==
    /\ op = "kill" /\ pc = "loop" /\ idx > Len(ctrs)
    /\ retErr' = NilErr
    /\ pc' = "done"
    /\ UNCHANGED <<store, op, cli, ctrs, idx, timeout, ok, failures, ctxErr, calls, runVars, logVars>>

\* ------------------------------------------------------------------ wait
\* A wait request.  cliconfig.WaitValues carries Latest and InputArgs only;
\* `all` is the selection the caller asked for, which WaitOnContainers has no
\* way to honour.
WaitRequests ==
    [all : BOOLEAN, latest : BOOLEAN, InputArgs : SeqsUpTo(Refs, MaxArgs),
     interval : {250}]

\* Outcomes of c.WaitWithInterval: an exit code (int32), or an error.
ExitCodes == {0, 42, -1}
WaitErrs == {ErrNoSuchCtr, ErrInternal}
WaitOutcomes ==
    {[code |-> e, err |-> NilErr] : e \in ExitCodes}
        \cup {[code |-> -1, err |-> e] : e \in WaitErrs}

\* Line 123: the resolver call of WaitOnContainers; `all` is the literal false.
WaitResolve(c, st) == GetContainersByContext(FALSE, c.latest, c.InputArgs, st)

\* Lines 129-133: where the outcome of one wait is recorded.
\* Faulty variant: a successful wait records the id, as stop and kill do.
WaitRecordID(acc, h, out) ==
    IF out.err = NilErr
    THEN [ok |-> Append(acc.ok, ID(h)), failures |-> acc.failures]
    ELSE [ok |-> acc.ok, failures |-> MapPut(acc.failures, ID(h), out.err)]
\* The code:
WaitRecord(acc, h, out) ==
    IF out.err = NilErr
    THEN [ok |-> Append(acc.ok, Itoa(out.code)), failures |-> acc.failures]
    ELSE [ok |-> acc.ok, failures |-> MapPut(acc.failures, ID(h), out.err)]

\* Lines 117-126: WaitOnContainers up to the loop.
WaitOnContainers ==
    /\ CanCall
    /\ \E c \in WaitRequests :
        LET r == WaitResolve(c, store)
        IN  /\ op' = "wait"
            /\ cli' = c
            /\ ok' = <<>>
            /\ failures' = EmptyMap
            /\ calls' = <<>>
            /\ idx' = 1
            /\ ctxErr' = r.err
            /\ IF r.err # NilErr
               THEN /\ ctrs' = <<>>
                    /\ retErr' = r.err
                    /\ pc' = "done"
               ELSE /\ ctrs' = r.ctrs
                    /\ retErr' = NilErr
                    /\ pc' = "loop"
    /\ UNCHANGED <<store, timeout, runVars, logVars>>

\* Lines 128-134: one iteration of the wait loop.
WaitIter ==
    /\ op = "wait" /\ pc = "loop" /\ idx <= Len(ctrs)
    /\ \E out \in WaitOutcomes :
        LET h == ctrs[idx]
            rec == WaitRecord([ok |-> ok, failures |-> failures], h, out)
        IN  /\ calls' = Append(calls, Call("WaitWithInterval", h, cli.interval, out.err, out.code))
            /\ ok' = rec.ok
            /\ failures' = rec.failures
    /\ idx' = idx + 1
    /\ UNCHANGED <<store, pc, op, cli, ctrs, timeout, ctxErr, retErr, runVars, logVars>>

\* Line 135: return ok, failures, err; err is the resolver's error, the loop's
\* err being scoped to its if statement.
WaitReturn ==
    /\ op = "wait" /\ pc = "loop" /\ idx > Len(ctrs)
    /\ retErr' = ctxErr
    /\ pc' = "done"
    /\ UNCHANGED <<store, op, cli, ctrs, idx, timeout, ok, failures, ctxErr, calls, runVars, logVars>>

NextBatch ==
    \/ StopContainers \/ StopIter \/ StopReturn
    \/ KillContainers \/ KillIter \/ KillReturn
    \/ WaitOnContainers \/ WaitIter \/ WaitReturn

SpecBatch == Init /\ [][NextBatch]_vars
\* ------------------------------------------------------------------ strings
\* A Go string that may hold any Unicode text is modelled as the sequence of
\* its code points (runes); plain ASCII text is also written as a string.
\* The printable ASCII characters a string can hold, in order: U+0020 to
\* U+005F, and U+0061 to U+007E.
AsciiLow == " !\"#$%&'()*+,-./0123456789:;<=>?@ABCDEFGHIJKLMNOPQRSTUVWXYZ[\\]^_"
AsciiHigh == "abcdefghijklmnopqrstuvwxyz{|}~"
\* The code point of a character of a string.
RuneOf(ch) ==
    CASE ch = "\n" -> 10
      [] ch = "\t" -> 9
      [] ch = "\r" -> 13
      [] ch = "\f" -> 12
      [] \E i \in 1..Len(AsciiLow) : SubSeq(AsciiLow, i, i) = ch ->
            31 + CHOOSE i \in 1..Len(AsciiLow) : SubSeq(AsciiLow, i, i) = ch
      [] OTHER -> 96 + CHOOSE i \in 1..Len(AsciiHigh) : SubSeq(AsciiHigh, i, i) = ch
\* []rune(s)
Runes(s) == [i \in 1..Len(s) |-> RuneOf(SubSeq(s, i, i))]
\* The character of an ASCII code point.
CharOf(r) ==
    CASE r = 10 -> "\n"
      [] r = 9 -> "\t"
      [] r = 13 -> "\r"
      [] r = 12 -> "\f"
      [] r \in 32..95 -> SubSeq(AsciiLow, r - 31, r - 31)
      [] OTHER -> SubSeq(AsciiHigh, r - 96, r - 96)
\* string(runes), for ASCII runes.
RECURSIVE FromRunes(_)
FromRunes(rs) == IF rs = <<>> THEN "" ELSE CharOf(Head(rs)) \o FromRunes(Tail(rs))

\* The case ranges of the Unicode tables (Unicode 10.0, the tables of the Go
\* releases of the repository's time): <<lo, hi, step, lower>> says that the
\* runes lo, lo + step, ..., hi have the lower-case forms lower, lower + step,
\* and so on.
LowerRanges ==
    <<
     <<65, 90, 1, 97>>, <<192, 214, 1, 224>>, <<216, 222, 1, 248>>, <<256, 302, 2, 257>>,
     <<304, 304, 1, 105>>, <<306, 310, 2, 307>>, <<313, 327, 2, 314>>, <<330, 374, 2, 331>>,
     <<376, 376, 1, 255>>, <<377, 381, 2, 378>>, <<385, 385, 1, 595>>, <<386, 388, 2, 387>>,
     <<390, 390, 1, 596>>, <<391, 391, 1, 392>>, <<393, 394, 1, 598>>, <<395, 395, 1, 396>>,
     <<398, 398, 1, 477>>, <<399, 399, 1, 601>>, <<400, 400, 1, 603>>, <<401, 401, 1, 402>>,
     <<403, 403, 1, 608>>, <<404, 404, 1, 611>>, <<406, 406, 1, 617>>, <<407, 407, 1, 616>>,
     <<408, 408, 1, 409>>, <<412, 412, 1, 623>>, <<413, 413, 1, 626>>, <<415, 415, 1, 629>>,
     <<416, 420, 2, 417>>, <<422, 422, 1, 640>>, <<423, 423, 1, 424>>, <<425, 425, 1, 643>>,
     <<428, 428, 1, 429>>, <<430, 430, 1, 648>>, <<431, 431, 1, 432>>, <<433, 434, 1, 650>>,
     <<435, 437, 2, 436>>, <<439, 439, 1, 658>>, <<440, 440, 1, 441>>, <<444, 444, 1, 445>>,
     <<452, 452, 1, 454>>, <<453, 453, 1, 454>>, <<455, 455, 1, 457>>, <<456, 456, 1, 457>>,
     <<458, 458, 1, 460>>, <<459, 475, 2, 460>>, <<478, 494, 2, 479>>, <<497, 497, 1, 499>>,
     <<498, 500, 2, 499>>, <<502, 502, 1, 405>>, <<503, 503, 1, 447>>, <<504, 542, 2, 505>>,
     <<544, 544, 1, 414>>, <<546, 562, 2, 547>>, <<570, 570, 1, 11365>>, <<571, 571, 1, 572>>,
     <<573, 573, 1, 410>>, <<574, 574, 1, 11366>>, <<577, 577, 1, 578>>, <<579, 579, 1, 384>>,
     <<580, 580, 1, 649>>, <<581, 581, 1, 652>>, <<582, 590, 2, 583>>, <<880, 882, 2, 881>>,
     <<886, 886, 1, 887>>, <<895, 895, 1, 1011>>, <<902, 902, 1, 940>>, <<904, 906, 1, 941>>,
     <<908, 908, 1, 972>>, <<910, 911, 1, 973>>, <<913, 929, 1, 945>>, <<931, 939, 1, 963>>,
     <<975, 975, 1, 983>>, <<984, 1006, 2, 985>>, <<1012, 1012, 1, 952>>, <<1015, 1015, 1, 1016>>,
     <<1017, 1017, 1, 1010>>, <<1018, 1018, 1, 1019>>, <<1021, 1023, 1, 891>>, <<1024, 1039, 1, 1104>>,
     <<1040, 1071, 1, 1072>>, <<1120, 1152, 2, 1121>>, <<1162, 1214, 2, 1163>>, <<1216, 1216, 1, 1231>>,
     <<1217, 1229, 2, 1218>>, <<1232, 1326, 2, 1233>>, <<1329, 1366, 1, 1377>>, <<4256, 4293, 1, 11520>>,
     <<4295, 4295, 1, 11559>>, <<4301, 4301, 1, 11565>>, <<5024, 5103, 1, 43888>>, <<5104, 5109, 1, 5112>>,
     <<7680, 7828, 2, 7681>>, <<7838, 7838, 1, 223>>, <<7840, 7934, 2, 7841>>, <<7944, 7951, 1, 7936>>,
     <<7960, 7965, 1, 7952>>, <<7976, 7983, 1, 7968>>, <<7992, 7999, 1, 7984>>, <<8008, 8013, 1, 8000>>,
     <<8025, 8031, 2, 8017>>, <<8040, 8047, 1, 8032>>, <<8072, 8079, 1, 8064>>, <<8088, 8095, 1, 8080>>,
     <<8104, 8111, 1, 8096>>, <<8120, 8121, 1, 8112>>, <<8122, 8123, 1, 8048>>, <<8124, 8124, 1, 8115>>,
     <<8136, 8139, 1, 8050>>, <<8140, 8140, 1, 8131>>, <<8152, 8153, 1, 8144>>, <<8154, 8155, 1, 8054>>,
     <<8168, 8169, 1, 8160>>, <<8170, 8171, 1, 8058>>, <<8172, 8172, 1, 8165>>, <<8184, 8185, 1, 8056>>,
     <<8186, 8187, 1, 8060>>, <<8188, 8188, 1, 8179>>, <<8486, 8486, 1, 969>>, <<8490, 8490, 1, 107>>,
     <<8491, 8491, 1, 229>>, <<8498, 8498, 1, 8526>>, <<8544, 8559, 1, 8560>>, <<8579, 8579, 1, 8580>>,
     <<9398, 9423, 1, 9424>>, <<11264, 11310, 1, 11312>>, <<11360, 11360, 1, 11361>>, <<11362, 11362, 1, 619>>,
     <<11363, 11363, 1, 7549>>, <<11364, 11364, 1, 637>>, <<11367, 11371, 2, 11368>>, <<11373, 11373, 1, 593>>,
     <<11374, 11374, 1, 625>>, <<11375, 11375, 1, 592>>, <<11376, 11376, 1, 594>>, <<11378, 11378, 1, 11379>>,
     <<11381, 11381, 1, 11382>>, <<11390, 11391, 1, 575>>, <<11392, 11490, 2, 11393>>, <<11499, 11501, 2, 11500>>,
     <<11506, 11506, 1, 11507>>, <<42560, 42604, 2, 42561>>, <<42624, 42650, 2, 42625>>, <<42786, 42798, 2, 42787>>,
     <<42802, 42862, 2, 42803>>, <<42873, 42875, 2, 42874>>, <<42877, 42877, 1, 7545>>, <<42878, 42886, 2, 42879>>,
     <<42891, 42891, 1, 42892>>, <<42893, 42893, 1, 613>>, <<42896, 42898, 2, 42897>>, <<42902, 42920, 2, 42903>>,
     <<42922, 42922, 1, 614>>, <<42923, 42923, 1, 604>>, <<42924, 42924, 1, 609>>, <<42925, 42925, 1, 620>>,
     <<42926, 42926, 1, 618>>, <<42928, 42928, 1, 670>>, <<42929, 42929, 1, 647>>, <<42930, 42930, 1, 669>>,
     <<42931, 42931, 1, 43859>>, <<42932, 42934, 2, 42933>>, <<65313, 65338, 1, 65345>>, <<66560, 66599, 1, 66600>>,
     <<66736, 66771, 1, 66776>>, <<68736, 68786, 1, 68800>>, <<71840, 71871, 1, 71872>>, <<125184, 125217, 1, 125218>>
    >>

\* unicode.ToLower
ToLowerRune(r) ==
    IF r < 128 THEN (IF r \in 65..90 THEN r + 32 ELSE r)
    ELSE LET hits == {i \in 1..Len(LowerRanges) :
                        /\ LowerRanges[i][1] <= r /\ r <= LowerRanges[i][2]
                        /\ (r - LowerRanges[i][1]) % LowerRanges[i][3] = 0}
         IN  IF hits = {} THEN r
             ELSE LET e == LowerRanges[CHOOSE i \in hits : TRUE]
                  IN  r + (e[4] - e[1])

\* strings.ToLower, rune by rune.
ToLower(s) == [i \in 1..Len(s) |-> ToLowerRune(s[i])]

HexDigits == "0123456789abcdef"
\* n as w hexadecimal digits.
RECURSIVE Hex(_, _)
Hex(n, w) ==
    IF w = 0 THEN <<>>
    ELSE Hex(n \div 16, w - 1) \o Runes(SubSeq(HexDigits, (n % 16) + 1, (n % 16) + 1))

\* The printable runes from U+0080 on, as ranges <<lo, hi>>: the letters,
\* marks, numbers, punctuation and symbols of Unicode 10.0.
PrintRanges ==
    <<
     <<161, 172>>, <<174, 887>>, <<890, 895>>, <<900, 906>>, <<908, 908>>, <<910, 929>>,
     <<931, 1327>>, <<1329, 1366>>, <<1369, 1375>>, <<1377, 1415>>, <<1417, 1418>>, <<1421, 1423>>,
     <<1425, 1479>>, <<1488, 1514>>, <<1520, 1524>>, <<1542, 1563>>, <<1566, 1756>>, <<1758, 1805>>,
     <<1808, 1866>>, <<1869, 1969>>, <<1984, 2042>>, <<2048, 2093>>, <<2096, 2110>>, <<2112, 2139>>,
     <<2142, 2142>>, <<2144, 2154>>, <<2208, 2228>>, <<2230, 2237>>, <<2260, 2273>>, <<2275, 2435>>,
     <<2437, 2444>>, <<2447, 2448>>, <<2451, 2472>>, <<2474, 2480>>, <<2482, 2482>>, <<2486, 2489>>,
     <<2492, 2500>>, <<2503, 2504>>, <<2507, 2510>>, <<2519, 2519>>, <<2524, 2525>>, <<2527, 2531>>,
     <<2534, 2557>>, <<2561, 2563>>, <<2565, 2570>>, <<2575, 2576>>, <<2579, 2600>>, <<2602, 2608>>,
     <<2610, 2611>>, <<2613, 2614>>, <<2616, 2617>>, <<2620, 2620>>, <<2622, 2626>>, <<2631, 2632>>,
     <<2635, 2637>>, <<2641, 2641>>, <<2649, 2652>>, <<2654, 2654>>, <<2662, 2677>>, <<2689, 2691>>,
     <<2693, 2701>>, <<2703, 2705>>, <<2707, 2728>>, <<2730, 2736>>, <<2738, 2739>>, <<2741, 2745>>,
     <<2748, 2757>>, <<2759, 2761>>, <<2763, 2765>>, <<2768, 2768>>, <<2784, 2787>>, <<2790, 2801>>,
     <<2809, 2815>>, <<2817, 2819>>, <<2821, 2828>>, <<2831, 2832>>, <<2835, 2856>>, <<2858, 2864>>,
     <<2866, 2867>>, <<2869, 2873>>, <<2876, 2884>>, <<2887, 2888>>, <<2891, 2893>>, <<2902, 2903>>,
     <<2908, 2909>>, <<2911, 2915>>, <<2918, 2935>>, <<2946, 2947>>, <<2949, 2954>>, <<2958, 2960>>,
     <<2962, 2965>>, <<2969, 2970>>, <<2972, 2972>>, <<2974, 2975>>, <<2979, 2980>>, <<2984, 2986>>,
     <<2990, 3001>>, <<3006, 3010>>, <<3014, 3016>>, <<3018, 3021>>, <<3024, 3024>>, <<3031, 3031>>,
     <<3046, 3066>>, <<3072, 3075>>, <<3077, 3084>>, <<3086, 3088>>, <<3090, 3112>>, <<3114, 3129>>,
     <<3133, 3140>>, <<3142, 3144>>, <<3146, 3149>>, <<3157, 3158>>, <<3160, 3162>>, <<3168, 3171>>,
     <<3174, 3183>>, <<3192, 3203>>, <<3205, 3212>>, <<3214, 3216>>, <<3218, 3240>>, <<3242, 3251>>,
     <<3253, 3257>>, <<3260, 3268>>, <<3270, 3272>>, <<3274, 3277>>, <<3285, 3286>>, <<3294, 3294>>,
     <<3296, 3299>>, <<3302, 3311>>, <<3313, 3314>>, <<3328, 3331>>, <<3333, 3340>>, <<3342, 3344>>,
     <<3346, 3396>>, <<3398, 3400>>, <<3402, 3407>>, <<3412, 3427>>, <<3430, 3455>>, <<3458, 3459>>,
     <<3461, 3478>>, <<3482, 3505>>, <<3507, 3515>>, <<3517, 3517>>, <<3520, 3526>>, <<3530, 3530>>,
     <<3535, 3540>>, <<3542, 3542>>, <<3544, 3551>>, <<3558, 3567>>, <<3570, 3572>>, <<3585, 3642>>,
     <<3647, 3675>>, <<3713, 3714>>, <<3716, 3716>>, <<3719, 3720>>, <<3722, 3722>>, <<3725, 3725>>,
     <<3732, 3735>>, <<3737, 3743>>, <<3745, 3747>>, <<3749, 3749>>, <<3751, 3751>>, <<3754, 3755>>,
     <<3757, 3769>>, <<3771, 3773>>, <<3776, 3780>>, <<3782, 3782>>, <<3784, 3789>>, <<3792, 3801>>,
     <<3804, 3807>>, <<3840, 3911>>, <<3913, 3948>>, <<3953, 3991>>, <<3993, 4028>>, <<4030, 4044>>,
     <<4046, 4058>>, <<4096, 4293>>, <<4295, 4295>>, <<4301, 4301>>, <<4304, 4680>>, <<4682, 4685>>,
     <<4688, 4694>>, <<4696, 4696>>, <<4698, 4701>>, <<4704, 4744>>, <<4746, 4749>>, <<4752, 4784>>,
     <<4786, 4789>>, <<4792, 4798>>, <<4800, 4800>>, <<4802, 4805>>, <<4808, 4822>>, <<4824, 4880>>,
     <<4882, 4885>>, <<4888, 4954>>, <<4957, 4988>>, <<4992, 5017>>, <<5024, 5109>>, <<5112, 5117>>,
     <<5120, 5759>>, <<5761, 5788>>, <<5792, 5880>>, <<5888, 5900>>, <<5902, 5908>>, <<5920, 5942>>,
     <<5952, 5971>>, <<5984, 5996>>, <<5998, 6000>>, <<6002, 6003>>, <<6016, 6109>>, <<6112, 6121>>,
     <<6128, 6137>>, <<6144, 6157>>, <<6160, 6169>>, <<6176, 6263>>, <<6272, 6314>>, <<6320, 6389>>,
     <<6400, 6430>>, <<6432, 6443>>, <<6448, 6459>>, <<6464, 6464>>, <<6468, 6509>>, <<6512, 6516>>,
     <<6528, 6571>>, <<6576, 6601>>, <<6608, 6618>>, <<6622, 6683>>, <<6686, 6750>>, <<6752, 6780>>,
     <<6783, 6793>>, <<6800, 6809>>, <<6816, 6829>>, <<6832, 6846>>, <<6912, 6987>>, <<6992, 7036>>,
     <<7040, 7155>>, <<7164, 7223>>, <<7227, 7241>>, <<7245, 7304>>, <<7360, 7367>>, <<7376, 7417>>,
     <<7424, 7673>>, <<7675, 7957>>, <<7960, 7965>>, <<7968, 8005>>, <<8008, 8013>>, <<8016, 8023>>,
     <<8025, 8025>>, <<8027, 8027>>, <<8029, 8029>>, <<8031, 8061>>, <<8064, 8116>>, <<8118, 8132>>,
     <<8134, 8147>>, <<8150, 8155>>, <<8157, 8175>>, <<8178, 8180>>, <<8182, 8190>>, <<8208, 8231>>,
     <<8240, 8286>>, <<8304, 8305>>, <<8308, 8334>>, <<8336, 8348>>, <<8352, 8383>>, <<8400, 8432>>,
     <<8448, 8587>>, <<8592, 9254>>, <<9280, 9290>>, <<9312, 11123>>, <<11126, 11157>>, <<11160, 11193>>,
     <<11197, 11208>>, <<11210, 11218>>, <<11244, 11247>>, <<11264, 11310>>, <<11312, 11358>>, <<11360, 11507>>,
     <<11513, 11557>>, <<11559, 11559>>, <<11565, 11565>>, <<11568, 11623>>, <<11631, 11632>>, <<11647, 11670>>,
     <<11680, 11686>>, <<11688, 11694>>, <<11696, 11702>>, <<11704, 11710>>, <<11712, 11718>>, <<11720, 11726>>,
     <<11728, 11734>>, <<11736, 11742>>, <<11744, 11849>>, <<11904, 11929>>, <<11931, 12019>>, <<12032, 12245>>,
     <<12272, 12283>>, <<12289, 12351>>, <<12353, 12438>>, <<12441, 12543>>, <<12549, 12590>>, <<12593, 12686>>,
     <<12688, 12730>>, <<12736, 12771>>, <<12784, 12830>>, <<12832, 13054>>, <<13056, 19893>>, <<19904, 40938>>,
     <<40960, 42124>>, <<42128, 42182>>, <<42192, 42539>>, <<42560, 42743>>, <<42752, 42926>>, <<42928, 42935>>,
     <<42999, 43051>>, <<43056, 43065>>, <<43072, 43127>>, <<43136, 43205>>, <<43214, 43225>>, <<43232, 43261>>,
     <<43264, 43347>>, <<43359, 43388>>, <<43392, 43469>>, <<43471, 43481>>, <<43486, 43518>>, <<43520, 43574>>,
     <<43584, 43597>>, <<43600, 43609>>, <<43612, 43714>>, <<43739, 43766>>, <<43777, 43782>>, <<43785, 43790>>,
     <<43793, 43798>>, <<43808, 43814>>, <<43816, 43822>>, <<43824, 43877>>, <<43888, 44013>>, <<44016, 44025>>,
     <<44032, 55203>>, <<55216, 55238>>, <<55243, 55291>>, <<63744, 64109>>, <<64112, 64217>>, <<64256, 64262>>,
     <<64275, 64279>>, <<64285, 64310>>, <<64312, 64316>>, <<64318, 64318>>, <<64320, 64321>>, <<64323, 64324>>,
     <<64326, 64449>>, <<64467, 64831>>, <<64848, 64911>>, <<64914, 64967>>, <<65008, 65021>>, <<65024, 65049>>,
     <<65056, 65106>>, <<65108, 65126>>, <<65128, 65131>>, <<65136, 65140>>, <<65142, 65276>>, <<65281, 65470>>,
     <<65474, 65479>>, <<65482, 65487>>, <<65490, 65495>>, <<65498, 65500>>, <<65504, 65510>>, <<65512, 65518>>,
     <<65532, 65533>>, <<65536, 65547>>, <<65549, 65574>>, <<65576, 65594>>, <<65596, 65597>>, <<65599, 65613>>,
     <<65616, 65629>>, <<65664, 65786>>, <<65792, 65794>>, <<65799, 65843>>, <<65847, 65934>>, <<65936, 65947>>,
     <<65952, 65952>>, <<66000, 66045>>, <<66176, 66204>>, <<66208, 66256>>, <<66272, 66299>>, <<66304, 66339>>,
     <<66349, 66378>>, <<66384, 66426>>, <<66432, 66461>>, <<66463, 66499>>, <<66504, 66517>>, <<66560, 66717>>,
     <<66720, 66729>>, <<66736, 66771>>, <<66776, 66811>>, <<66816, 66855>>, <<66864, 66915>>, <<66927, 66927>>,
     <<67072, 67382>>, <<67392, 67413>>, <<67424, 67431>>, <<67584, 67589>>, <<67592, 67592>>, <<67594, 67637>>,
     <<67639, 67640>>, <<67644, 67644>>, <<67647, 67669>>, <<67671, 67742>>, <<67751, 67759>>, <<67808, 67826>>,
     <<67828, 67829>>, <<67835, 67867>>, <<67871, 67897>>, <<67903, 67903>>, <<67968, 68023>>, <<68028, 68047>>,
     <<68050, 68099>>, <<68101, 68102>>, <<68108, 68115>>, <<68117, 68119>>, <<68121, 68147>>, <<68152, 68154>>,
     <<68159, 68167>>, <<68176, 68184>>, <<68192, 68255>>, <<68288, 68326>>, <<68331, 68342>>, <<68352, 68405>>,
     <<68409, 68437>>, <<68440, 68466>>, <<68472, 68497>>, <<68505, 68508>>, <<68521, 68527>>, <<68608, 68680>>,
     <<68736, 68786>>, <<68800, 68850>>, <<68858, 68863>>, <<69216, 69246>>, <<69632, 69709>>, <<69714, 69743>>,
     <<69759, 69820>>, <<69822, 69825>>, <<69840, 69864>>, <<69872, 69881>>, <<69888, 69940>>, <<69942, 69955>>,
     <<69968, 70006>>, <<70016, 70093>>, <<70096, 70111>>, <<70113, 70132>>, <<70144, 70161>>, <<70163, 70206>>,
     <<70272, 70278>>, <<70280, 70280>>, <<70282, 70285>>, <<70287, 70301>>, <<70303, 70313>>, <<70320, 70378>>,
     <<70384, 70393>>, <<70400, 70403>>, <<70405, 70412>>, <<70415, 70416>>, <<70419, 70440>>, <<70442, 70448>>,
     <<70450, 70451>>, <<70453, 70457>>, <<70460, 70468>>, <<70471, 70472>>, <<70475, 70477>>, <<70480, 70480>>,
     <<70487, 70487>>, <<70493, 70499>>, <<70502, 70508>>, <<70512, 70516>>, <<70656, 70745>>, <<70747, 70747>>,
     <<70749, 70749>>, <<70784, 70855>>, <<70864, 70873>>, <<71040, 71093>>, <<71096, 71133>>, <<71168, 71236>>,
     <<71248, 71257>>, <<71264, 71276>>, <<71296, 71351>>, <<71360, 71369>>, <<71424, 71449>>, <<71453, 71467>>,
     <<71472, 71487>>, <<71840, 71922>>, <<71935, 71935>>, <<72192, 72263>>, <<72272, 72323>>, <<72326, 72348>>,
     <<72350, 72354>>, <<72384, 72440>>, <<72704, 72712>>, <<72714, 72758>>, <<72760, 72773>>, <<72784, 72812>>,
     <<72816, 72847>>, <<72850, 72871>>, <<72873, 72886>>, <<72960, 72966>>, <<72968, 72969>>, <<72971, 73014>>,
     <<73018, 73018>>, <<73020, 73021>>, <<73023, 73031>>, <<73040, 73049>>, <<73728, 74649>>, <<74752, 74862>>,
     <<74864, 74868>>, <<74880, 75075>>, <<77824, 78894>>, <<82944, 83526>>, <<92160, 92728>>, <<92736, 92766>>,
     <<92768, 92777>>, <<92782, 92783>>, <<92880, 92909>>, <<92912, 92917>>, <<92928, 92997>>, <<93008, 93017>>,
     <<93019, 93025>>, <<93027, 93047>>, <<93053, 93071>>, <<93952, 94020>>, <<94032, 94078>>, <<94095, 94111>>,
     <<94176, 94177>>, <<94208, 100332>>, <<100352, 101106>>, <<110592, 110878>>, <<110960, 111355>>, <<113664, 113770>>,
     <<113776, 113788>>, <<113792, 113800>>, <<113808, 113817>>, <<113820, 113823>>, <<118784, 119029>>, <<119040, 119078>>,
     <<119081, 119154>>, <<119163, 119272>>, <<119296, 119365>>, <<119552, 119638>>, <<119648, 119665>>, <<119808, 119892>>,
     <<119894, 119964>>, <<119966, 119967>>, <<119970, 119970>>, <<119973, 119974>>, <<119977, 119980>>, <<119982, 119993>>,
     <<119995, 119995>>, <<119997, 120003>>, <<120005, 120069>>, <<120071, 120074>>, <<120077, 120084>>, <<120086, 120092>>,
     <<120094, 120121>>, <<120123, 120126>>, <<120128, 120132>>, <<120134, 120134>>, <<120138, 120144>>, <<120146, 120485>>,
     <<120488, 120779>>, <<120782, 121483>>, <<121499, 121503>>, <<121505, 121519>>, <<122880, 122886>>, <<122888, 122904>>,
     <<122907, 122913>>, <<122915, 122916>>, <<122918, 122922>>, <<124928, 125124>>, <<125127, 125142>>, <<125184, 125258>>,
     <<125264, 125273>>, <<125278, 125279>>, <<126464, 126467>>, <<126469, 126495>>, <<126497, 126498>>, <<126500, 126500>>,
     <<126503, 126503>>, <<126505, 126514>>, <<126516, 126519>>, <<126521, 126521>>, <<126523, 126523>>, <<126530, 126530>>,
     <<126535, 126535>>, <<126537, 126537>>, <<126539, 126539>>, <<126541, 126543>>, <<126545, 126546>>, <<126548, 126548>>,
     <<126551, 126551>>, <<126553, 126553>>, <<126555, 126555>>, <<126557, 126557>>, <<126559, 126559>>, <<126561, 126562>>,
     <<126564, 126564>>, <<126567, 126570>>, <<126572, 126578>>, <<126580, 126583>>, <<126585, 126588>>, <<126590, 126590>>,
     <<126592, 126601>>, <<126603, 126619>>, <<126625, 126627>>, <<126629, 126633>>, <<126635, 126651>>, <<126704, 126705>>,
     <<126976, 127019>>, <<127024, 127123>>, <<127136, 127150>>, <<127153, 127167>>, <<127169, 127183>>, <<127185, 127221>>,
     <<127232, 127244>>, <<127248, 127278>>, <<127280, 127339>>, <<127344, 127404>>, <<127462, 127490>>, <<127504, 127547>>,
     <<127552, 127560>>, <<127568, 127569>>, <<127584, 127589>>, <<127744, 128724>>, <<128736, 128748>>, <<128752, 128760>>,
     <<128768, 128883>>, <<128896, 128980>>, <<129024, 129035>>, <<129040, 129095>>, <<129104, 129113>>, <<129120, 129159>>,
     <<129168, 129197>>, <<129280, 129291>>, <<129296, 129342>>, <<129344, 129356>>, <<129360, 129387>>, <<129408, 129431>>,
     <<129472, 129472>>, <<129488, 129510>>, <<131072, 173782>>, <<173824, 177972>>, <<177984, 178205>>, <<178208, 183969>>,
     <<183984, 191456>>, <<194560, 195101>>, <<917760, 917999>>
    >>

\* strconv.IsPrint
IsPrint(r) ==
    IF r < 128 THEN r \in 32..126
    ELSE \E i \in 1..Len(PrintRanges) : PrintRanges[i][1] <= r /\ r <= PrintRanges[i][2]

\* unicode/utf8.MaxRune
MaxRune == 1114111

\* strconv.Quote, one rune of a valid UTF-8 string: the quote and the
\* backslash are escaped, a printable rune stands for itself, the control
\* characters that have a name are written by it, the others below U+0020 as
\* \x escapes, and every other unprintable rune (U+007F among them) as a \u
\* or \U escape.
QuoteRune(r) ==
    CASE r = 34 -> <<92, 34>>
      [] r = 92 -> <<92, 92>>
      [] r \notin {34, 92} /\ IsPrint(r) -> <<r>>
      [] r = 7 -> <<92, 97>>
      [] r = 8 -> <<92, 98>>
      [] r = 12 -> <<92, 102>>
      [] r = 10 -> <<92, 110>>
      [] r = 13 -> <<92, 114>>
      [] r = 9 -> <<92, 116>>
      [] r = 11 -> <<92, 118>>
      [] r < 32 /\ r \notin 7..13 -> <<92, 120>> \o Hex(r, 2)
      [] r > MaxRune -> <<92, 117>> \o Hex(65533, 4)
      [] r < 65536 -> <<92, 117>> \o Hex(r, 4)
      [] OTHER -> <<92, 85>> \o Hex(r, 8)
RECURSIVE QuoteBody(_)
QuoteBody(rs) == IF rs = <<>> THEN <<>> ELSE QuoteRune(Head(rs)) \o QuoteBody(Tail(rs))
\* strconv.Quote, which is what the verb %q prints for a string.
Quote(rs) == <<34>> \o QuoteBody(rs) \o <<34>>
\* The same for ASCII text held as a string.
QuoteString(s) == FromRunes(Quote(Runes(s)))

\* strings.Index(s, sub): the 0-based position of the first sub in s, or -1.
StringsIndex(s, sub) ==
    LET hits == {i \in 0..(Len(s) - Len(sub)) : SubSeq(s, i + 1, i + Len(sub)) = sub}
    IN  IF hits = {} THEN -1
        ELSE CHOOSE i \in hits : \A j \in hits : i <= j

DigitValue(ch) == (CHOOSE i \in 1..10 : Digits[i] = ch) - 1
IsDigit(ch) == \E i \in 1..10 : Digits[i] = ch

RECURSIVE ParseDigits(_, _)
ParseDigits(s, acc) ==
    IF s = "" THEN acc
    ELSE ParseDigits(SubSeq(s, 2, Len(s)), 10 * acc + DigitValue(SubSeq(s, 1, 1)))

\* strconv.ErrSyntax and strconv.ErrRange.
ErrSyntax == [cause |-> "ErrSyntax", text |-> "invalid syntax"]
ErrRange == [cause |-> "ErrRange", text |-> "value out of range"]
\* The *NumError strconv.Atoi returns for the text s.
NumError(s, e) ==
    [cause |-> e.cause, text |-> "strconv.Atoi: parsing " \o QuoteString(s) \o ": " \o e.text]

\* The digits of s without its leading zeros.
RECURSIVE StripZeros(_)
StripZeros(s) ==
    IF Len(s) > 1 /\ SubSeq(s, 1, 1) = "0" THEN StripZeros(SubSeq(s, 2, Len(s))) ELSE s
\* a > b for two digit strings without leading zeros.
RECURSIVE DigitsGreater(_, _)
DigitsGreater(a, b) ==
    IF Len(a) # Len(b) THEN Len(a) > Len(b)
    ELSE IF a = "" THEN FALSE
    ELSE IF SubSeq(a, 1, 1) # SubSeq(b, 1, 1)
    THEN DigitValue(SubSeq(a, 1, 1)) > DigitValue(SubSeq(b, 1, 1))
    ELSE DigitsGreater(SubSeq(a, 2, Len(a)), SubSeq(b, 2, Len(b)))
\* The largest int and the magnitude of the smallest (int is 64 bits wide),
\* and the largest uint64.
MaxInt64Digits == "9223372036854775807"
MinInt64Digits == "9223372036854775808"
MaxUint64Digits == "18446744073709551615"

\* strconv.Atoi: an optional sign, then one or more decimal digits.  The
\* text is read from the left: the first character that is not a digit is
\* a syntax error, the first digit with which the number passes the largest
\* uint64 is a range error, whichever comes first; a number read to its end
\* that is outside the range of int is a range error too.  val is the value
\* returned: 0 with a syntax error, the nearest int with a range error; a
\* value of more than nine digits, which the integers here cannot hold, is
\* given as its decimal text.
Atoi(s) ==
    LET signed == s # "" /\ SubSeq(s, 1, 1) \in {"+", "-"}
        neg == signed /\ SubSeq(s, 1, 1) = "-"
        body == IF signed THEN SubSeq(s, 2, Len(s)) ELSE s
        bad == {i \in 1..Len(body) : ~IsDigit(SubSeq(body, i, i))}
        firstBad == IF bad = {} THEN Len(body) + 1
                    ELSE CHOOSE i \in bad : \A j \in bad : i <= j
        over == \E i \in 1..(firstBad - 1) :
                    DigitsGreater(StripZeros(SubSeq(body, 1, i)), MaxUint64Digits)
        nearest == IF neg THEN "-" \o MinInt64Digits ELSE MaxInt64Digits
    IN  IF body = "" THEN [val |-> 0, err |-> NumError(s, ErrSyntax)]
        ELSE IF over THEN [val |-> nearest, err |-> NumError(s, ErrRange)]
        ELSE IF bad # {} THEN [val |-> 0, err |-> NumError(s, ErrSyntax)]
        ELSE IF DigitsGreater(StripZeros(body),
                              IF neg THEN MinInt64Digits ELSE MaxInt64Digits)
        THEN [val |-> nearest, err |-> NumError(s, ErrRange)]
        ELSE IF Len(StripZeros(body)) > 9
        THEN [val |-> (IF neg THEN "-" ELSE "") \o StripZeros(body), err |-> NilErr]
        ELSE [val |-> IF neg THEN 0 - ParseDigits(body, 0) ELSE ParseDigits(body, 0),
              err |-> NilErr]

\* ------------------------------------------------------------------ exit file
\* config.TmpDir
TmpDir == "/run/libpod"

\* The runtime temp directories GetConfig may report: the same directory,
\* written in three ways.
TmpDirs == {TmpDir, TmpDir \o "/", "/var/.." \o TmpDir}

\* The elements of a slash-separated path, the empty ones left out.
RECURSIVE PathElems(_, _, _)
PathElems(path, cur, acc) ==
    IF path = "" THEN (IF cur = "" THEN acc ELSE Append(acc, cur))
    ELSE IF SubSeq(path, 1, 1) = "/"
    THEN PathElems(SubSeq(path, 2, Len(path)), "", IF cur = "" THEN acc ELSE Append(acc, cur))
    ELSE PathElems(SubSeq(path, 2, Len(path)), cur \o SubSeq(path, 1, 1), acc)
\* strings.Join(elems, "/")
RECURSIVE JoinSlash(_)
JoinSlash(elems) ==
    IF elems = <<>> THEN ""
    ELSE IF Len(elems) = 1 THEN elems[1]
    ELSE elems[1] \o "/" \o JoinSlash(Tail(elems))
\* The elements that are left of a path once "." is dropped and ".." has
\* taken away the element before it; a rooted path has nothing above the root.
RECURSIVE CleanElems(_, _, _)
CleanElems(elems, rooted, acc) ==
    IF elems = <<>> THEN acc
    ELSE LET e == Head(elems)
             rest == Tail(elems)
         IN  IF e = "." THEN CleanElems(rest, rooted, acc)
             ELSE IF e = ".."
             THEN IF acc # <<>> /\ acc[Len(acc)] # ".."
                  THEN CleanElems(rest, rooted, SubSeq(acc, 1, Len(acc) - 1))
                  ELSE IF rooted THEN CleanElems(rest, rooted, acc)
                  ELSE CleanElems(rest, rooted, Append(acc, ".."))
             ELSE CleanElems(rest, rooted, Append(acc, e))
\* filepath.Clean
Clean(path) ==
    LET rooted == path # "" /\ SubSeq(path, 1, 1) = "/"
        out == (IF rooted THEN "/" ELSE "")
                   \o JoinSlash(CleanElems(PathElems(path, "", <<>>), rooted, <<>>))
    IN  IF out = "" THEN "." ELSE out
\* filepath.Join: the empty elements are ignored and the result is cleaned.
Join(elems) ==
    LET given == SelectSeq(elems, LAMBDA e : e # "")
    IN  IF given = <<>> THEN "" ELSE Clean(JoinSlash(given))

\* Line 285: filepath.Join(runtimeTmp, "exits", ctrID + "-old").
ExitFilePath(runtimeTmp, ctrID) == Join(<<runtimeTmp, "exits", ctrID \o "-old">>)

\* errors.Wrapf(err, msg): the cause is kept, the text is prefixed.
Wrapf(err, msg) == [cause |-> err.cause, text |-> msg \o ": " \o err.text]

\* The *os.PathError of os.Stat on a missing file, and of ioutil.ReadFile on
\* a file that may not be read: the operation, the path, the system's error.
ErrNotExist(path) ==
    [cause |-> "ENOENT", text |-> "stat " \o path \o ": no such file or directory"]
ErrPermission(path) ==
    [cause |-> "EACCES", text |-> "open " \o path \o ": permission denied"]

\* Lines 284-306: ReadExitFile against the files `files`.
ReadExitFile(runtimeTmp, ctrID, files) ==
    LET exitFile == ExitFilePath(runtimeTmp, ctrID)
        found == {f \in files : f.path = exitFile}
    IN  IF found = {}
        THEN [code |-> 0,
              err |-> Wrapf(ErrNotExist(exitFile),
                            "error getting exit file for container " \o ctrID)]
        ELSE LET f == CHOOSE g \in found : TRUE
             IN  IF ~f.readable
                 THEN [code |-> 0,
                       err |-> Wrapf(ErrPermission(exitFile),
                                     "error reading exit file for container " \o ctrID)]
                 ELSE LET r == Atoi(f.data)
                      IN  IF r.err # NilErr
                          THEN [code |-> 0,
                                err |-> Wrapf(r.err,
                                              "error parsing exit code for container " \o ctrID)]
                          ELSE [code |-> r.val, err |-> NilErr]

\* ------------------------------------------------------------------ run
\* The container shared.CreateContainer creates: a handle no store holds yet.
RunCtr == MaxCtrs + 1

\* Values of --attach: the three streams, "STD" U+0130 (capital I with dot
\* above) "N", and a"b followed by U+00A0 (no-break space).
StdinDotted == <<83, 84, 68, 304, 78>>
QuotedName == Runes("a\"b") \o <<160>>
StreamNames == {Runes("stdout"), Runes("stderr"), Runes("stdin"), StdinDotted, QuotedName}
AttachLists == SeqsUpTo(StreamNames, MaxAttach) \ {<<>>}

\* The --attach flag: IsSet("attach"), IsSet("a") and StringSlice("attach").
\* The list is empty exactly when neither name is set.
AttachFlags ==
    {<<FALSE, FALSE, <<>>>>}
        \cup {t \in BOOLEAN \X BOOLEAN \X AttachLists : t[1] \/ t[2]}

\* A run request: the flags Run reads, and its exitCode argument.
RunRequests ==
    {[detach |-> d, interactive |-> i, rm |-> r, pod |-> p, exitCode |-> x,
      setAttach |-> a[1], setA |-> a[2], attach |-> a[3]] :
        d \in BOOLEAN, i \in BOOLEAN, r \in BOOLEAN, p \in BOOLEAN, x \in {0, 125},
        a \in AttachFlags}

\* Outcomes of the engine calls Run makes.
ErrCreate == [cause |-> "ErrCtrCreate", text |-> "invalid container configuration"]
ErrExecPermission ==
    [cause |-> "ErrOCIRuntime", text |-> "oci runtime error: exec: permission denied"]
ErrPermissionFirst ==
    [cause |-> "ErrOCIRuntime", text |-> "permission denied: OCI runtime error"]
ErrPermissionCapital == [cause |-> "ErrOCIRuntime", text |-> "Permission denied"]
ErrCommandNotFound ==
    [cause |-> "ErrOCIRuntime", text |-> "executable file not found in $PATH"]
CreateErrs == {NilErr, ErrCreate}
StartErrs ==
    {NilErr, ErrExecPermission, ErrPermissionFirst, ErrPermissionCapital, ErrCommandNotFound}
AttachErrs == StartErrs \cup {ErrDetach, ErrDetachWrapped}
RunWaitOutcomes ==
    {[code |-> e, err |-> NilErr] : e \in {0, 42}}
        \cup {[code |-> -1, err |-> e] : e \in {ErrNoSuchCtr, ErrNoSuchCtrWrapped, ErrInternal}}
ConfigErrs == {NilErr, ErrInternal}
RemoveErrs == {NilErr, ErrInternal}

\* The file in which the engine leaves the exit code of container h:
\* <runtime-temp-dir>/exits/<container-id>-old.
ExitRecord(h) == "/run/libpod/exits/" \o ID(h) \o "-old"

\* What may lie under TmpDir/exits when Run looks: nothing, this container's
\* exit file (readable or not, with some contents), or another container's.
ExitFileStates ==
    {{}}
        \cup {{[path |-> ExitRecord(RunCtr), readable |-> TRUE, data |-> d]} :
                d \in {"42", "0", "-7", "+3", "", "abc", "42\n", "9223372036854775808",
                       "99999999999999999999x"}}
        \cup {{[path |-> ExitRecord(RunCtr), readable |-> FALSE, data |-> "42"]},
              {[path |-> ExitRecord(1), readable |-> TRUE, data |-> "42"]}}

\* Lines 191-194: the exit code of a failed detached start.
StartExitCode(e) ==
    IF StringsIndex(e.text, "permission denied") > -1 THEN 126 ELSE 127

\* Lines 244-247: the exit code of a failed start+attach.
\* Faulty variant: a match at position 0 is taken for no match.
AttachExitCodeOffByOne(e) ==
    IF StringsIndex(e.text, "permission denied") > 0 THEN 126 ELSE 127
\* The code:
AttachExitCode(e) ==
    IF StringsIndex(e.text, "permission denied") > -1 THEN 126 ELSE 127

\* Line 230: the invalid-stream error.
\* The text holds the stream as %q prints it, so it is a sequence of runes.
InvalidStream(stream) ==
    [cause |-> "ErrInvalidArg",
     text |-> Runes("invalid stream ") \o Quote(stream)
                  \o Runes(" for --attach - must be one of stdin, stdout, or stderr")
                  \o Runes(": invalid argument")]

\* Lines 223-227: the three stream names, as runes.
Stdout == Runes("stdout")
Stderr == Runes("stderr")
Stdin == Runes("stdin")

\* Lines 221-232: the loop over the --attach values.
RECURSIVE AttachLoop(_, _, _)
AttachLoop(attachTo, i, st) ==
    IF i > Len(attachTo) THEN [streams |-> st, err |-> NilErr]
    ELSE LET stream == ToLower(attachTo[i])
         IN  CASE stream = Stdout -> AttachLoop(attachTo, i + 1, [st EXCEPT !.out = TRUE])
               [] stream = Stderr -> AttachLoop(attachTo, i + 1, [st EXCEPT !.err = TRUE])
               [] stream = Stdin -> AttachLoop(attachTo, i + 1, [st EXCEPT !.in = TRUE])
               [] OTHER -> [streams |-> st, err |-> InvalidStream(attachTo[i])]

\* Lines 203-233: the streams that take part in the attach.
\* Faulty variant: stdin is not cleared when interactive is unset.
SelectStreamsKeepStdin(c) ==
    LET default == [out |-> TRUE, err |-> TRUE, in |-> TRUE]
    IN  IF c.setAttach \/ c.setA
        THEN AttachLoop(c.attach, 1, [default EXCEPT !.out = FALSE, !.err = FALSE])
        ELSE [streams |-> default, err |-> NilErr]
\* The code:
SelectStreams(c) ==
    LET default == [out |-> TRUE, err |-> TRUE, in |-> c.interactive]
    IN  IF c.setAttach \/ c.setA
        THEN AttachLoop(c.attach, 1,
                        [out |-> FALSE, err |-> FALSE,
                         in |-> IF ~c.interactive THEN FALSE ELSE default.in])
        ELSE [streams |-> default, err |-> NilErr]

\* What the batch calls keep of a call, which Run leaves alone.
batchVars == <<ctrs, idx, timeout, ok, failures, ctxErr>>

\* The store without container h.
Without(st, h) == SelectSeq(st, LAMBDA x : x # h)
\* The store once the engine calls cs were made: a removal that returned no
\* error has taken the created container out of it.
StoreAfterRemoval(st, cs) ==
    IF \E j \in 1..Len(cs) : cs[j].fn = "RemoveContainer" /\ cs[j].err = NilErr
    THEN Without(st, RunCtr)
    ELSE st

\* Lines 164-168: CreateContainer.  When the creation fails the container
\* returned is nil, and ctr.ID() dereferences it before err is returned.
CreateContainer ==
    /\ CanCall
    /\ \E e \in CreateErrs :
        /\ op' = "create"
        /\ calls' = <<Call("CreateContainer", RunCtr, 0, e, 0)>>
        /\ IF e = NilErr
           THEN /\ store' = Append(store, RunCtr)
                /\ retID' = ID(RunCtr)
                /\ retErr' = NilErr
                /\ pc' = "done"
                /\ UNCHANGED panicked
           ELSE /\ panicked' = TRUE
                /\ pc' = "panicked"
                /\ UNCHANGED <<store, retID, retErr>>
    /\ UNCHANGED <<batchVars, cli, exitCode, streams, stdout, fs, logChannel, chanCap, closed,
                   wg, options, producers, replay, closer, printed>>

\* Lines 171-187: Run up to the choice between the detached and the attached
\* branch.  The debug-level logging of the cgroup path (179-184) changes
\* nothing Run returns or prints on standard output.
Run ==
    /\ CanCall
    /\ \E c \in RunRequests, e \in CreateErrs :
        /\ op' = "run"
        /\ cli' = c
        /\ exitCode' = c.exitCode
        /\ calls' = <<Call("CreateContainer", RunCtr, 0, e, 0)>>
        /\ store' = IF e # NilErr THEN store ELSE Append(store, RunCtr)
        /\ retErr' = e
        /\ pc' = IF e # NilErr THEN "done"
                 ELSE IF c.detach THEN "start" ELSE "streams"
    /\ UNCHANGED <<batchVars, logVars, retID, streams, stdout, fs>>

\* Lines 187-201: the detached branch.
\* Faulty variant: a successful detached start leaves exitCode as given.
RunStartKeepCode ==
    /\ op = "run" /\ pc = "start"
    /\ \E e \in StartErrs :
        /\ calls' = Append(calls, Call("Start", RunCtr, cli.pod, e, 0))
        /\ retErr' = e
        /\ IF e # NilErr
           THEN /\ exitCode' = StartExitCode(e)
                /\ UNCHANGED stdout
           ELSE /\ stdout' = stdout \o ID(RunCtr) \o "\n"
                /\ UNCHANGED exitCode
    /\ pc' = "done"
    /\ UNCHANGED <<store, batchVars, logVars, retID, op, cli, streams, fs>>
\* The code:
RunStart ==
    /\ op = "run" /\ pc = "start"
    /\ \E e \in StartErrs :
        /\ calls' = Append(calls, Call("Start", RunCtr, cli.pod, e, 0))
        /\ retErr' = e
        /\ IF e # NilErr
           THEN /\ exitCode' = StartExitCode(e)
                /\ UNCHANGED stdout
           ELSE /\ stdout' = stdout \o ID(RunCtr) \o "\n"
                /\ exitCode' = 0
    /\ pc' = "done"
    /\ UNCHANGED <<store, batchVars, logVars, retID, op, cli, streams, fs>>

\* Lines 203-233: the attached branch up to start+attach.
RunSelectStreams ==
    /\ op = "run" /\ pc = "streams"
    /\ LET sel == SelectStreams(cli)
       IN  /\ streams' = sel.streams
           /\ retErr' = sel.err
           /\ pc' = IF sel.err # NilErr THEN "done" ELSE "attach"
    /\ UNCHANGED <<store, batchVars, logVars, retID, op, cli, calls, exitCode, stdout, fs>>

\* The arguments of StartAttachCtr that the flags decide.
AttachArgs == [out |-> streams.out, err |-> streams.err, in |-> streams.in,
               pod |-> cli.pod]
RemoveArgs(force, removeVolume) == [force |-> force, removeVolume |-> removeVolume]

\* Lines 235-254: start+attach and its failure paths.
\* Faulty variant: a failed removal replaces the error returned.
RunStartAttachReturnDeleteError ==
    /\ op = "run" /\ pc = "attach"
    /\ \E e \in AttachErrs :
        LET attached == Append(calls, Call("StartAttachCtr", RunCtr, AttachArgs, e, 0))
        IN  IF e = NilErr
            THEN /\ calls' = attached
                 /\ pc' = "wait"
                 /\ UNCHANGED <<exitCode, retErr>>
            ELSE IF Cause(e) = ErrDetach.cause
            THEN /\ calls' = attached
                 /\ exitCode' = 0
                 /\ retErr' = NilErr
                 /\ pc' = "done"
            ELSE /\ exitCode' = AttachExitCode(e)
                 /\ IF cli.rm
                    THEN \E deleteError \in RemoveErrs :
                            /\ calls' = Append(attached,
                                               Call("RemoveContainer", RunCtr,
                                                    RemoveArgs(TRUE, FALSE), deleteError, 0))
                            /\ retErr' = IF deleteError # NilErr THEN deleteError ELSE e
                    ELSE /\ calls' = attached
                         /\ retErr' = e
                 /\ pc' = "done"
    /\ store' = StoreAfterRemoval(store, calls')
    /\ UNCHANGED <<batchVars, logVars, retID, op, cli, streams, stdout, fs>>
\* Faulty variant: a detach is told by comparing the error itself, not its
\* cause, so a wrapped detach is handled as a failure.
RunStartAttachDetachUnwrapped ==
    /\ op = "run" /\ pc = "attach"
    /\ \E e \in AttachErrs :
        LET attached == Append(calls, Call("StartAttachCtr", RunCtr, AttachArgs, e, 0))
        IN  IF e = NilErr
            THEN /\ calls' = attached
                 /\ pc' = "wait"
                 /\ UNCHANGED <<exitCode, retErr>>
            ELSE IF e = ErrDetach
            THEN /\ calls' = attached
                 /\ exitCode' = 0
                 /\ retErr' = NilErr
                 /\ pc' = "done"
            ELSE /\ exitCode' = AttachExitCode(e)
                 /\ IF cli.rm
                    THEN \E deleteError \in RemoveErrs :
                            calls' = Append(attached,
                                            Call("RemoveContainer", RunCtr,
                                                 RemoveArgs(TRUE, FALSE), deleteError, 0))
                    ELSE calls' = attached
                 /\ retErr' = e
                 /\ pc' = "done"
    /\ store' = StoreAfterRemoval(store, calls')
    /\ UNCHANGED <<batchVars, logVars, retID, op, cli, streams, stdout, fs>>
\* The code:
RunStartAttach ==
    /\ op = "run" /\ pc = "attach"
    /\ \E e \in AttachErrs :
        LET attached == Append(calls, Call("StartAttachCtr", RunCtr, AttachArgs, e, 0))
        IN  IF e = NilErr
            THEN /\ calls' = attached
                 /\ pc' = "wait"
                 /\ UNCHANGED <<exitCode, retErr>>
            ELSE IF Cause(e) = ErrDetach.cause
            THEN /\ calls' = attached
                 /\ exitCode' = 0
                 /\ retErr' = NilErr
                 /\ pc' = "done"
            ELSE /\ exitCode' = AttachExitCode(e)
                 /\ IF cli.rm
                    THEN \E deleteError \in RemoveErrs :
                            calls' = Append(attached,
                                            Call("RemoveContainer", RunCtr,
                                                 RemoveArgs(TRUE, FALSE), deleteError, 0))
                    ELSE calls' = attached
                 /\ retErr' = e
                 /\ pc' = "done"
    /\ store' = StoreAfterRemoval(store, calls')
    /\ UNCHANGED <<batchVars, logVars, retID, op, cli, streams, stdout, fs>>

\* Lines 256-274: the exit code after the wait returned w, given the code so
\* far and, when the container was gone, what ReadExitFile returned.
\* Faulty variant: any failed wait counts as a command that could not run.
ExitCodeAfterWaitAlways127(code, w, r) ==
    IF w.err = NilErr THEN w.code
    ELSE IF Cause(w.err) = ErrNoSuchCtr.cause
    THEN IF r.err # NilErr THEN 127 ELSE r.code
    ELSE 127
\* Faulty variant: a failed read of the exit file leaves the code as it was.
ExitCodeAfterWaitKeepOnReadError(code, w, r) ==
    IF w.err = NilErr THEN w.code
    ELSE IF Cause(w.err) = ErrNoSuchCtr.cause
    THEN IF r.err # NilErr THEN code ELSE r.code
    ELSE code
\* The code:
ExitCodeAfterWait(code, w, r) ==
    IF w.err = NilErr THEN w.code
    ELSE IF Cause(w.err) = ErrNoSuchCtr.cause
    THEN IF r.err # NilErr THEN 127 ELSE r.code
    ELSE code

\* Lines 256-274: the wait for the exit code, with the exit-file fallback.
\* A wait that finds the container gone finds it taken out of the store;
\* `fs` is what lies under the temp directory's exits then.
RunWait ==
    /\ op = "run" /\ pc = "wait"
    /\ \E w \in RunWaitOutcomes :
        LET waited == Append(calls, Call("Wait", RunCtr, 0, w.err, w.code))
        IN  IF w.err # NilErr /\ Cause(w.err) = ErrNoSuchCtr.cause
            THEN \E ce \in ConfigErrs, tmp \in TmpDirs, files \in ExitFileStates :
                    /\ store' = Without(store, RunCtr)
                    /\ fs' = files
                    /\ calls' = Append(waited, Call("GetConfig", RunCtr, 0, ce, 0))
                    /\ IF ce # NilErr
                       THEN /\ retErr' = ce
                            /\ pc' = "done"
                            /\ UNCHANGED exitCode
                       ELSE /\ exitCode' =
                                ExitCodeAfterWait(exitCode, w,
                                                  ReadExitFile(tmp, ID(RunCtr), files))
                            /\ pc' = "cleanup"
                            /\ UNCHANGED retErr
            ELSE /\ calls' = waited
                 /\ exitCode' = ExitCodeAfterWait(exitCode, w, [code |-> 0, err |-> NilErr])
                 /\ pc' = "cleanup"
                 /\ UNCHANGED <<store, retErr, fs>>
    /\ UNCHANGED <<batchVars, logVars, retID, op, cli, streams, stdout>>

\* Lines 276-280: the removal after exit, and the return.
\* Faulty variant: the error of the removal is returned.
RunCleanupReturnRemoveError ==
    /\ op = "run" /\ pc = "cleanup"
    /\ IF cli.rm
       THEN \E removeError \in RemoveErrs :
               /\ calls' = Append(calls, Call("RemoveContainer", RunCtr,
                                              RemoveArgs(FALSE, TRUE), removeError, 0))
               /\ retErr' = removeError
       ELSE UNCHANGED calls /\ retErr' = NilErr
    /\ pc' = "done"
    /\ store' = StoreAfterRemoval(store, calls')
    /\ UNCHANGED <<batchVars, logVars, retID, op, cli, exitCode, streams, stdout, fs>>
\* Faulty variant: the container is removed only after a clean exit.
RunCleanupOnlyOnZero ==
    /\ op = "run" /\ pc = "cleanup"
    /\ IF cli.rm /\ exitCode = 0
       THEN \E removeError \in RemoveErrs :
               calls' = Append(calls, Call("RemoveContainer", RunCtr,
                                           RemoveArgs(FALSE, TRUE), removeError, 0))
       ELSE UNCHANGED calls
    /\ retErr' = NilErr
    /\ pc' = "done"
    /\ store' = StoreAfterRemoval(store, calls')
    /\ UNCHANGED <<batchVars, logVars, retID, op, cli, exitCode, streams, stdout, fs>>
\* The code:
RunCleanup ==
    /\ op = "run" /\ pc = "cleanup"
    /\ IF cli.rm
       THEN \E removeError \in RemoveErrs :
               calls' = Append(calls, Call("RemoveContainer", RunCtr,
                                           RemoveArgs(FALSE, TRUE), removeError, 0))
       ELSE UNCHANGED calls
    /\ retErr' = NilErr
    /\ pc' = "done"
    /\ store' = StoreAfterRemoval(store, calls')
    /\ UNCHANGED <<batchVars, logVars, retID, op, cli, exitCode, streams, stdout, fs>>

NextRun ==
    \/ CreateContainer
    \/ Run \/ RunStart \/ RunSelectStreams \/ RunStartAttach \/ RunWait \/ RunCleanup

\* Run and CreateContainer add to the store and do not read it; their
\* behaviours start from the empty one.
InitRun == Init /\ store = <<>>

SpecRun == InitRun /\ [][NextRun]_vars

\* ------------------------------------------------------------------- log
\* The positional arguments of a log request: up to MaxLogArgs references,
\* by turns the id of the first container and the name of the second, or one
\* dangling reference.
LogArgLists ==
    {[i \in 1..n |-> IF i % 2 = 1 THEN ID(1) ELSE Name(2)] : n \in 0..MaxLogArgs}
        \cup {<<"missing">>}
\* The log requests: --latest, the positional arguments, --tail and options.
\* Multi is options.Multi as the caller passed it.
LogRequests ==
    [Latest : BOOLEAN, InputArgs : LogArgLists, Tail : 0..MaxTail, Multi : BOOLEAN]

\* What opening one container's log source comes to: how many lines it
\* replays into the channel before the call returns (at most the tail-line
\* count) and how many its producer sends afterwards.
LogPlans(tail) ==
    {pl \in [sync : 0..MaxLines, later : 0..MaxLines] :
        pl.sync <= tail /\ pl.sync + pl.later <= MaxLines}
\* The errors opening a log source may return.
ReadLogErrs == {ErrInternal}

\* The n-th line of the log source opened k-th, a line of container h.
LogLine(k, h, n) == [src |-> k, cid |-> ID(h), msg |-> "line" \o ItoaNat(n)]
\* line.String(options): the line is tagged with its container when Multi.
LogLineString(line, opts) ==
    IF opts.Multi THEN line.cid \o " " \o line.msg ELSE line.msg

\* Everything but stdout that neither Log nor its goroutines touch.
logFrame == <<store, timeout, ok, failures, ctxErr, calls, exitCode, streams, fs, retID>>

\* Line 145: the capacity of logChannel.
LogChannelCap(c) == c.Tail * Len(c.InputArgs) + 1

\* Lines 139-149: Log up to the resolution of the containers.
Log ==
    /\ CanCall
    /\ \E c \in LogRequests :
        LET res == GetContainersByContext(FALSE, c.Latest, c.InputArgs, store)
        IN  /\ op' = "log"
            /\ cli' = c
            /\ wg' = 0
            /\ options' = [Multi |-> IF Len(c.InputArgs) > 1 THEN TRUE ELSE c.Multi]
            /\ chanCap' = LogChannelCap(c)
            /\ logChannel' = <<>>
            /\ ctrs' = res.ctrs
            /\ idx' = 1
            /\ retErr' = res.err
            /\ pc' = IF res.err # NilErr THEN "done" ELSE "readlog"
    /\ UNCHANGED <<logFrame, stdout, closed, producers, replay, closer, printed, panicked>>

\* Lines 150-152, inside r.Runtime.Log: the log source of the next container
\* is opened.  It fails, and Log returns the error, or it is counted in the
\* wait group and its replay begins.
LogReadLog ==
    /\ op = "log" /\ pc = "readlog" /\ idx <= Len(ctrs)
    /\ \/ \E e \in ReadLogErrs :
            /\ retErr' = e
            /\ pc' = "done"
            /\ UNCHANGED <<wg, producers, replay>>
       \/ \E pl \in LogPlans(cli.Tail) :
            /\ wg' = wg + 1
            /\ producers' = Append(producers,
                                   [state |-> "replay", sent |-> 0,
                                    total |-> pl.sync + pl.later])
            /\ replay' = pl.sync
            /\ pc' = "replay"
            /\ UNCHANGED retErr
    /\ UNCHANGED <<logFrame, stdout, op, cli, ctrs, idx, logChannel, chanCap, closed,
                   options, closer, printed, panicked>>

\* Inside r.Runtime.Log: one replayed line is sent on the channel by the
\* calling goroutine, which blocks while the channel is full.
LogReplaySend ==
    /\ op = "log" /\ pc = "replay" /\ replay > 0
    /\ Len(logChannel) < chanCap
    /\ logChannel' = Append(logChannel, LogLine(idx, ctrs[idx], producers[idx].sent + 1))
    /\ producers' = [producers EXCEPT ![idx].sent = @ + 1]
    /\ replay' = replay - 1
    /\ UNCHANGED <<logFrame, stdout, pc, op, cli, ctrs, idx, retErr, chanCap, closed, wg,
                   options, closer, printed, panicked>>

\* Inside r.Runtime.Log: the replay is over, the producer of the container
\* is started and the loop goes on to the next container.
LogSpawnProducer ==
    /\ op = "log" /\ pc = "replay" /\ replay = 0
    /\ producers' = [producers EXCEPT ![idx].state = "running"]
    /\ idx' = idx + 1
    /\ pc' = "readlog"
    /\ UNCHANGED <<logFrame, stdout, op, cli, ctrs, retErr, logChannel, chanCap, closed, wg,
                   options, replay, closer, printed, panicked>>

\* The producer of the k-th log source sends its next line; it blocks while
\* the channel is full, and a send on the closed channel panics.
ProducerSend(k) ==
    /\ op = "log" /\ k \in 1..Len(producers)
    /\ producers[k].state = "running"
    /\ producers[k].sent < producers[k].total
    /\ IF closed
       THEN /\ panicked' = TRUE
            /\ producers' = [producers EXCEPT ![k].state = "panicked"]
            /\ UNCHANGED logChannel
       ELSE /\ Len(logChannel) < chanCap
            /\ logChannel' = Append(logChannel, LogLine(k, ctrs[k], producers[k].sent + 1))
            /\ producers' = [producers EXCEPT ![k].sent = @ + 1]
            /\ UNCHANGED panicked
    /\ UNCHANGED <<logFrame, stdout, pc, op, cli, ctrs, idx, retErr, chanCap, closed, wg,
                   options, replay, closer, printed>>

\* The producer of the k-th log source has sent all its lines and signals
\* completion on the wait group.
ProducerDone(k) ==
    /\ op = "log" /\ k \in 1..Len(producers)
    /\ producers[k].state = "running"
    /\ producers[k].sent = producers[k].total
    /\ producers' = [producers EXCEPT ![k].state = "done"]
    /\ wg' = wg - 1
    /\ UNCHANGED <<logFrame, stdout, pc, op, cli, ctrs, idx, retErr, logChannel, chanCap,
                   closed, options, replay, closer, printed, panicked>>

\* Lines 150-153: r.Runtime.Log returned nil and the closing goroutine is
\* started.
LogSpawnCloser ==
    /\ op = "log" /\ pc = "readlog" /\ idx > Len(ctrs)
    /\ closer' = "waiting"
    /\ pc' = "consume"
    /\ UNCHANGED <<logFrame, stdout, op, cli, ctrs, idx, retErr, logChannel, chanCap, closed,
                   wg, options, producers, replay, printed, panicked>>

\* Line 154: wg.Wait() returns once the counter is zero.
\* Faulty variant: the closing goroutine does not wait for the producers.
CloserWaitNoBarrier ==
    /\ op = "log" /\ closer = "waiting"
    /\ closer' = "closing"
    /\ UNCHANGED <<logFrame, stdout, pc, op, cli, ctrs, idx, retErr, logChannel, chanCap,
                   closed, wg, options, producers, replay, printed, panicked>>
\* The code:
CloserWait ==
    /\ op = "log" /\ closer = "waiting"
    /\ wg = 0
    /\ closer' = "closing"
    /\ UNCHANGED <<logFrame, stdout, pc, op, cli, ctrs, idx, retErr, logChannel, chanCap,
                   closed, wg, options, producers, replay, printed, panicked>>

\* Line 155: close(logChannel).
CloserClose ==
    /\ op = "log" /\ closer = "closing"
    /\ closed' = TRUE
    /\ closer' = "done"
    /\ UNCHANGED <<logFrame, stdout, pc, op, cli, ctrs, idx, retErr, logChannel, chanCap,
                   wg, options, producers, replay, printed, panicked>>

\* Lines 157-159: the consumer receives the next line and prints it.
ConsumerPrint ==
    /\ op = "log" /\ pc = "consume"
    /\ logChannel # <<>>
    /\ printed' = Append(printed, Head(logChannel))
    /\ stdout' = stdout \o LogLineString(Head(logChannel), options) \o "\n"
    /\ logChannel' = Tail(logChannel)
    /\ UNCHANGED <<logFrame, pc, op, cli, ctrs, idx, retErr, chanCap, closed, wg, options,
                   producers, replay, closer, panicked>>

\* Lines 157-160: the channel is closed and drained, the loop ends and Log
\* returns nil.
ConsumerReturn ==
    /\ op = "log" /\ pc = "consume"
    /\ logChannel = <<>> /\ closed
    /\ retErr' = NilErr
    /\ pc' = "done"
    /\ UNCHANGED <<logFrame, stdout, op, cli, ctrs, idx, logChannel, chanCap, closed, wg,
                   options, producers, replay, closer, printed, panicked>>

Producers == 1..MaxLogArgs
LogMain == Log \/ LogReadLog \/ LogReplaySend \/ LogSpawnProducer \/ LogSpawnCloser
Producer(k) == ProducerSend(k) \/ ProducerDone(k)
Closer == CloserWait \/ CloserClose
Consumer == ConsumerPrint \/ ConsumerReturn
NextLog ==
    \/ Log \/ LogReadLog \/ LogReplaySend \/ LogSpawnProducer \/ LogSpawnCloser
    \/ \E k \in Producers : ProducerSend(k)
    \/ \E k \in Producers : ProducerDone(k)
    \/ CloserWait \/ CloserClose
    \/ ConsumerPrint \/ ConsumerReturn

\* Log looks up at most the first two containers; its behaviours start from
\* the empty store or the store of two.
InitLog == Init /\ store \in {<<>>, <<1, 2>>}

SpecLog == InitLog /\ [][NextLog]_vars

\* The Go scheduler lets every goroutine that can take a step take one: the
\* goroutine of the caller, each producer, the closer.
SpecLogFair ==
    /\ SpecLog
    /\ WF_vars(LogMain)
    /\ \A k \in Producers : WF_vars(Producer(k))
    /\ WF_vars(Closer)
    /\ WF_vars(Consumer)

\* ------------------------------------------------------------------ batch claims
IsBatch == op \in {"stop", "kill", "wait"}
\* The call has returned and its resolution had succeeded.
BatchDone == IsBatch /\ pc = "done" /\ ctxErr = NilErr
ResolvedIDs == {ID(ctrs[i]) : i \in 1..Len(ctrs)}
NoRepeats == \A i, j \in 1..Len(ctrs) : ctrs[i] = ctrs[j] => i = j
\* The calls that count as a success of the method called.
CallOK(c) == c.err = NilErr \/ (op = "stop" /\ Cause(c.err) = "ErrCtrStopped")
FailedIDs == {ID(calls[i].ctr) : i \in {j \in 1..Len(calls) : ~CallOK(calls[j])}}
OkCalls == SelectSeq(calls, CallOK)

\* C1 (as stated): after a batch stop, kill or wait whose resolution
\* succeeded, every resolved container's id is in exactly one of the ok list
\* and the failures map.
C1_PartitionAsClaimed ==
    BatchDone =>
        \A id \in ResolvedIDs : (id \in Range(ok)) # (id \in DOMAIN failures)

\* C1 (amended): after a stop or kill every resolved id is in the ok list or
\* the failures map, and in exactly one of them when no container was
\* resolved twice; after a wait the failures map holds exactly the ids whose
\* wait failed and the ok list holds no id at all; in all three the two
\* outputs hold one entry per resolved container when none is repeated.
C1_PartitionAmended ==
    BatchDone =>
        /\ op \in {"stop", "kill"} =>
            /\ Range(ok) \cup DOMAIN failures = ResolvedIDs
            /\ NoRepeats => Range(ok) \cap DOMAIN failures = {}
        /\ op = "wait" =>
            /\ DOMAIN failures = FailedIDs
            /\ Range(ok) \cap ResolvedIDs = {}
        /\ NoRepeats => Len(ok) + Cardinality(DOMAIN failures) = Len(ctrs)

\* A kill of two distinct containers, one killed and one not.
C1_Witness ==
    /\ BatchDone /\ op = "kill" /\ NoRepeats /\ Len(ctrs) = 2
    /\ Len(ok) = 1 /\ Cardinality(DOMAIN failures) = 1

\* C2: the action is invoked exactly once on every resolved handle, in
\* order, whatever the other actions returned, and the batch error is nil.
C2_EveryHandleOnce ==
    (IsBatch /\ ctxErr = NilErr) =>
        /\ Len(calls) = idx - 1
        /\ \A i \in 1..Len(calls) : calls[i].ctr = ctrs[i]
        /\ pc = "done" => (Len(calls) = Len(ctrs) /\ retErr = NilErr)

\* A batch whose first action failed and whose second was still attempted.
C2_Witness ==
    /\ BatchDone /\ Len(ctrs) >= 2
    /\ ~CallOK(calls[1]) /\ calls[2].ctr = ctrs[2] /\ retErr = NilErr

\* C3: in StopContainers the ok list is the ids of the stops that returned
\* nil or already-stopped, in order, and the failures map holds the ids of
\* exactly the stops that returned another error.
C3_AlreadyStoppedIsOK ==
    op = "stop" =>
        /\ ok = [i \in 1..Len(OkCalls) |-> ID(OkCalls[i].ctr)]
        /\ DOMAIN failures = FailedIDs
        /\ \A i \in 1..Len(calls) :
            Cause(calls[i].err) = "ErrCtrStopped" =>
                \E j \in 1..Len(ok) : ok[j] = ID(calls[i].ctr)
        /\ (NoRepeats /\ pc \in {"loop", "done"}) =>
            \A i \in 1..Len(calls) :
                LET id == ID(calls[i].ctr)
                IN  IF CallOK(calls[i])
                    THEN id \in Range(ok) /\ id \notin DOMAIN failures
                    ELSE id \notin Range(ok) /\ failures[id] = calls[i].err

\* A stop of two containers: one already stopped, one failing otherwise.
C3_Witness ==
    /\ op = "stop" /\ pc = "done" /\ Len(calls) = 2 /\ NoRepeats
    /\ calls[1].err = ErrCtrStoppedWrapped /\ calls[2].err = ErrCtrStateInvalid
    /\ ok = <<ID(ctrs[1])>> /\ DOMAIN failures = {ID(ctrs[2])}

\* C4: every stop call of a batch gets the explicit timeout when --timeout or
\* --time was given, and the first resolved container's default otherwise.
C4_SharedTimeout ==
    op = "stop" =>
        \A i \in 1..Len(calls) :
            calls[i].arg = IF cli.changedTimeout \/ cli.changedTime
                           THEN cli.Timeout
                           ELSE StopTimeout(ctrs[1])

\* No explicit timeout; the second container's default differs from the
\* first's, and its stop got the first's.
C4_Witness ==
    /\ op = "stop" /\ pc = "done" /\ Len(calls) >= 2
    /\ ~cli.changedTimeout /\ ~cli.changedTime
    /\ StopTimeout(ctrs[2]) # StopTimeout(ctrs[1])
    /\ calls[2].arg = StopTimeout(ctrs[1])

\* The handles a wait request names: the latest container, or those its
\* positional arguments resolve to.
WaitNamed ==
    IF cli.latest THEN {store[i] : i \in {Len(store)} \cap DOMAIN store}
    ELSE {LookupContainer(store, cli.InputArgs[i]).ctr : i \in 1..Len(cli.InputArgs)}

C6_WaitExitCodes ==
    op = "wait" =>
        /\ ok = [i \in 1..Len(OkCalls) |-> Itoa(OkCalls[i].code)]
        /\ DOMAIN failures = FailedIDs
        /\ \A i \in 1..Len(ok) : ok[i] \notin {ID(h) : h \in Handles}
        /\ \A i \in 1..Len(calls) :
            (~CallOK(calls[i]) /\ \A j \in (i + 1)..Len(calls) :
                                     calls[j].ctr # calls[i].ctr \/ CallOK(calls[j]))
                => failures[ID(calls[i].ctr)] = calls[i].err

\* A wait of two containers: exit code 42, then exit code -1, then nothing
\* else; and one of a failed wait next to a successful one.
C6_Witness ==
    /\ op = "wait" /\ pc = "done" /\ Len(calls) = 2
    /\ calls[1].err = NilErr /\ calls[1].code = 42
    /\ calls[2].err = ErrInternal
    /\ ok = <<"42">> /\ DOMAIN failures = {ID(ctrs[2])}

\* ------------------------------------------------------------------ run claims
RunDone == op = "run" /\ pc = "done"
CallsTo(fn) == {i \in 1..Len(calls) : calls[i].fn = fn}
\* s has sub as a substring.
Contains(s, sub) ==
    \E i \in 1..Len(s) :
        i + Len(sub) - 1 <= Len(s) /\ SubSeq(s, i, i + Len(sub) - 1) = sub
\* The start or start+attach calls that failed otherwise than by a detach.
FailedStarts ==
    {i \in CallsTo("Start") \cup CallsTo("StartAttachCtr") :
        calls[i].err # NilErr /\ Cause(calls[i].err) # "ErrDetach"}

\* C7: a detached Run whose create and start succeeded printed the id once,
\* returns 0 and no error whatever exitCode it was given, and a detached Run
\* never attaches, waits or removes.
C7_DetachedRun ==
    (op = "run" /\ cli.detach) =>
        /\ CallsTo("StartAttachCtr") \cup CallsTo("Wait") \cup CallsTo("RemoveContainer") = {}
        /\ (pc = "done" /\ \E i \in CallsTo("Start") : calls[i].err = NilErr) =>
            /\ stdout = ID(RunCtr) \o "\n"
            /\ exitCode = 0
            /\ retErr = NilErr

\* A detached Run with --rm, called with exit code 125, that started.
C7_Witness ==
    /\ RunDone /\ cli.detach /\ cli.rm /\ cli.exitCode = 125
    /\ calls[Len(calls)].fn = "Start" /\ calls[Len(calls)].err = NilErr
    /\ exitCode = 0 /\ stdout = ID(RunCtr) \o "\n"

\* C8: when start or start+attach failed otherwise than by a detach, Run
\* returns 126 if the error text contains "permission denied" and 127 if not.
C8_StartFailureCode ==
    RunDone =>
        \A i \in FailedStarts :
            exitCode = IF Contains(calls[i].err.text, "permission denied")
                       THEN 126 ELSE 127

\* An attached Run with --rm, called with exit code 0, whose start+attach
\* failed with a text that begins with "permission denied".
C8_Witness ==
    /\ RunDone /\ ~cli.detach /\ cli.rm /\ cli.exitCode = 0
    /\ \E i \in CallsTo("StartAttachCtr") : calls[i].err = ErrPermissionFirst
    /\ exitCode = 126

\* C9: with interactive unset and an --attach list that does not name stdin,
\* the input stream handed to start+attach is nil.
C9_StdinNotAttached ==
    (op = "run" /\ ~cli.interactive /\ (cli.setAttach \/ cli.setA)
        /\ \A j \in 1..Len(cli.attach) : ToLower(cli.attach[j]) # Stdin) =>
        \A i \in CallsTo("StartAttachCtr") : ~calls[i].arg.in

\* --attach stdout without --interactive: only stdout was handed over.
C9_Witness ==
    /\ op = "run" /\ ~cli.interactive /\ cli.attach = <<Stdout>>
    /\ \E i \in CallsTo("StartAttachCtr") :
        calls[i].arg.out /\ ~calls[i].arg.err /\ ~calls[i].arg.in

\* C10: after a start+attach failure that is no detach, Run returns the
\* attach error and the code it maps to whatever the removal returned; with
\* --rm exactly one removal, forced, was attempted after the attach, and
\* without --rm none.
C10_RemoveOnAttachFailure ==
    RunDone =>
        \A i \in FailedStarts \cap CallsTo("StartAttachCtr") :
            /\ retErr = calls[i].err
            /\ exitCode \in {126, 127}
            /\ exitCode = 126 <=> Contains(calls[i].err.text, "permission denied")
            /\ cli.rm =>
                /\ Cardinality(CallsTo("RemoveContainer")) = 1
                /\ \A j \in CallsTo("RemoveContainer") : j > i /\ calls[j].arg.force
            /\ ~cli.rm => CallsTo("RemoveContainer") = {}

\* The removal after a failed start+attach failed too.
C10_Witness ==
    /\ RunDone /\ cli.rm /\ Len(calls) = 3
    /\ calls[2].fn = "StartAttachCtr" /\ calls[2].err = ErrCommandNotFound
    /\ calls[3].fn = "RemoveContainer" /\ calls[3].err = ErrInternal
    /\ exitCode = 127 /\ retErr = ErrCommandNotFound

\* The start+attach calls that a detach by the user ended.
Detached ==
    {i \in CallsTo("StartAttachCtr") :
        calls[i].err # NilErr /\ Cause(calls[i].err) = "ErrDetach"}
\* The waits that failed because the container no longer exists.
WaitsGone ==
    {i \in CallsTo("Wait") :
        calls[i].err # NilErr /\ Cause(calls[i].err) = "ErrNoSuchCtr"}
\* The waits that failed for any other reason.
WaitsFailedOtherwise ==
    {i \in CallsTo("Wait") :
        calls[i].err # NilErr /\ Cause(calls[i].err) # "ErrNoSuchCtr"}
\* The runtime configuration was read without error.
ConfigRead == \E i \in CallsTo("GetConfig") : calls[i].err = NilErr

\* C11: once the start+attach step was ended by a detach of the user, Run
\* has returned exit code 0 and no error, has not waited, read the runtime
\* configuration or removed anything, whatever --rm and the exit code it
\* was given.
C11_DetachReturnsZero ==
    (op = "run" /\ Detached # {}) =>
        /\ pc = "done"
        /\ exitCode = 0
        /\ retErr = NilErr
        /\ CallsTo("Wait") \cup CallsTo("GetConfig") \cup CallsTo("RemoveContainer") = {}
        /\ \A i \in Detached : i = Len(calls)

\* A wrapped detach ended an attached Run with --rm that was given 125.
C11_Witness ==
    /\ RunDone /\ cli.rm /\ cli.exitCode = 125 /\ Len(calls) = 2
    /\ calls[2].fn = "StartAttachCtr" /\ calls[2].err = ErrDetachWrapped
    /\ exitCode = 0 /\ retErr = NilErr

\* C12: when the wait failed because the container is gone and a readable
\* exit record holding the integer v lies on disk for it, Run returns v and
\* no error, whatever exit code it was given.
C12_RecordedCodeAsClaimed ==
    (RunDone /\ WaitsGone # {}) =>
        \A f \in fs :
            (f.path = ExitRecord(RunCtr) /\ f.readable /\ Atoi(f.data).err = NilErr) =>
                /\ exitCode = Atoi(f.data).val
                /\ retErr = NilErr

\* The container was created.
Created == \E i \in CallsTo("CreateContainer") : calls[i].err = NilErr
\* The reads of the runtime configuration that failed.
ConfigFailures == {i \in CallsTo("GetConfig") : calls[i].err # NilErr}
\* The attach list is in force and names stream n, in any case of letters.
Listed(n) ==
    /\ cli.setAttach \/ cli.setA
    /\ \E k \in 1..Len(cli.attach) : ToLower(cli.attach[k]) = n
\* The attach list is in force and holds a name that is no stream.
InvalidListed ==
    /\ cli.setAttach \/ cli.setA
    /\ \E k \in 1..Len(cli.attach) :
        ToLower(cli.attach[k]) \notin {Stdout, Stderr, Stdin}

\* C16, as claimed: Run returns an error only when the creation failed or
\* the attach list named an invalid stream; after any later failure it
\* returns no error.
C16_OnlyEarlyErrorsAsClaimed ==
    (RunDone /\ retErr # NilErr) =>
        \/ ~Created
        \/ ~cli.detach /\ InvalidListed

\* C16, amended: Run returns an error exactly when the creation failed, the
\* attach list named an invalid stream, the start or the start+attach failed
\* otherwise than by a detach, or the runtime configuration could not be
\* read, and the error is that one; a failed wait, a failed read of the exit
\* record and a failed removal are never returned.
C16_ReturnedErrors ==
    RunDone =>
        /\ retErr # NilErr <=>
            \/ ~Created
            \/ ~cli.detach /\ InvalidListed
            \/ FailedStarts # {}
            \/ ConfigFailures # {}
        /\ ~Created => retErr = calls[1].err
        /\ (Created /\ ~cli.detach /\ InvalidListed) => retErr.cause = "ErrInvalidArg"
        /\ \A i \in FailedStarts \cup ConfigFailures : retErr = calls[i].err

\* Reading the runtime configuration failed after the container was found
\* gone: Run returned that error and the exit code 125 it was given.
C16_Witness ==
    /\ RunDone /\ cli.exitCode = 125 /\ WaitsGone # {}
    /\ \E i \in ConfigFailures : calls[i].err = ErrInternal
    /\ retErr = ErrInternal /\ exitCode = 125

\* C17, as claimed: with --rm, once the container was created and Run has
\* returned otherwise than by a detach of the user, a removal was attempted.
C17_RemovedUnlessDetachedAsClaimed ==
    (RunDone /\ cli.rm /\ Created /\ Detached = {}) =>
        CallsTo("RemoveContainer") # {}

\* C17, amended: with --rm, once the container was created and Run has
\* returned, a removal was attempted, once and as the last call, exactly
\* when the start+attach failed otherwise than by a detach or the wait
\* returned and the runtime configuration, if it was read, was read without
\* error; none was attempted after a detached start, whether it failed or
\* not, an invalid attach stream, a detach, or a failed read of the runtime
\* configuration.
C17_RemovalAttempts ==
    (RunDone /\ cli.rm /\ Created) =>
        /\ CallsTo("RemoveContainer") # {} <=>
            \/ FailedStarts \cap CallsTo("StartAttachCtr") # {}
            \/ CallsTo("Wait") # {} /\ ConfigFailures = {}
        /\ CallsTo("RemoveContainer") \subseteq {Len(calls)}
        /\ cli.detach => CallsTo("RemoveContainer") = {}
        /\ InvalidListed => CallsTo("RemoveContainer") = {}

\* With --rm the container exited with 42 and the removal, which failed, was
\* the last call.
C17_Witness ==
    /\ RunDone /\ cli.rm /\ Len(calls) = 4
    /\ calls[3].fn = "Wait" /\ calls[3].err = NilErr /\ calls[3].code = 42
    /\ calls[4].fn = "RemoveContainer" /\ calls[4].err = ErrInternal
    /\ exitCode = 42 /\ retErr = NilErr

\* C18: with an attach list in force, stdout is handed to the start+attach
\* exactly when it is listed, stderr exactly when it is listed, and stdin
\* exactly when it is listed and interactive is set.
C18_AttachListDecidesStreams ==
    (op = "run" /\ (cli.setAttach \/ cli.setA)) =>
        \A i \in CallsTo("StartAttachCtr") :
            /\ calls[i].arg.out <=> Listed(Stdout)
            /\ calls[i].arg.err <=> Listed(Stderr)
            /\ calls[i].arg.in <=> (Listed(Stdin) /\ cli.interactive)

\* C19: when the wait failed otherwise than because the container is gone,
\* Run goes on to the cleanup with the exit code it was given, reads neither
\* the runtime configuration nor an exit record, and returns that code and no
\* error; with --rm one removal, not forced, was attempted after the wait,
\* and without --rm none.
C19_FailedWaitKeepsCode ==
    (op = "run" /\ WaitsFailedOtherwise # {}) =>
        /\ pc \in {"cleanup", "done"}
        /\ exitCode = cli.exitCode
        /\ CallsTo("GetConfig") = {}
        /\ fs = {}
        /\ pc = "done" =>
            /\ retErr = NilErr
            /\ cli.rm =>
                /\ Cardinality(CallsTo("RemoveContainer")) = 1
                /\ \A j \in CallsTo("RemoveContainer") :
                    /\ \A i \in WaitsFailedOtherwise : j > i
                    /\ ~calls[j].arg.force
            /\ ~cli.rm => CallsTo("RemoveContainer") = {}

\* A Run with --rm that was given 125 returned 125 after the wait failed with
\* an internal error, and attempted the removal.
C19_Witness ==
    /\ RunDone /\ cli.rm /\ cli.exitCode = 125 /\ Len(calls) = 4
    /\ calls[3].fn = "Wait" /\ calls[3].err = ErrInternal
    /\ calls[4].fn = "RemoveContainer"
    /\ exitCode = 125 /\ retErr = NilErr

\* The exit record of the created container cannot be recovered from fs: it
\* is absent, unreadable, or holds no integer.
RecordUnusable ==
    \/ \A f \in fs : f.path # ExitRecord(RunCtr)
    \/ \E f \in fs : f.path = ExitRecord(RunCtr) /\ ~f.readable
    \/ \E f \in fs : f.path = ExitRecord(RunCtr) /\ f.readable /\ Atoi(f.data).err # NilErr

\* C20: when the wait failed because the container is gone, the runtime
\* configuration was read and the exit record is absent, unreadable or holds
\* no integer, Run goes on to the cleanup with exit code 127 and returns 127
\* and no error; with --rm one removal, not forced, was attempted, and
\* without --rm none.
C20_FailedRecoveryIs127 ==
    (op = "run" /\ WaitsGone # {} /\ ConfigRead /\ RecordUnusable) =>
        /\ pc \in {"cleanup", "done"}
        /\ exitCode = 127
        /\ pc = "done" =>
            /\ retErr = NilErr
            /\ cli.rm =>
                /\ Cardinality(CallsTo("RemoveContainer")) = 1
                /\ \A j \in CallsTo("RemoveContainer") :
                    j = Len(calls) /\ ~calls[j].arg.force
            /\ ~cli.rm => CallsTo("RemoveContainer") = {}

\* The three ways, each in a Run with --rm that returned 127 after its
\* removal: no record for this container, an unreadable one, and one whose
\* contents end in a newline.
C20_WitnessAbsent ==
    /\ RunDone /\ cli.rm /\ WaitsGone # {} /\ ConfigRead
    /\ \E f \in fs : f.path = ExitRecord(1)
    /\ CallsTo("RemoveContainer") # {} /\ exitCode = 127 /\ retErr = NilErr
C20_WitnessUnreadable ==
    /\ RunDone /\ cli.rm /\ WaitsGone # {} /\ ConfigRead
    /\ \E f \in fs : f.path = ExitRecord(RunCtr) /\ ~f.readable
    /\ CallsTo("RemoveContainer") # {} /\ exitCode = 127 /\ retErr = NilErr
C20_Witness ==
    /\ RunDone /\ cli.rm /\ cli.exitCode = 0 /\ WaitsGone # {} /\ ConfigRead
    /\ \E f \in fs : f.path = ExitRecord(RunCtr) /\ f.readable /\ f.data = "42\n"
    /\ CallsTo("RemoveContainer") # {} /\ exitCode = 127 /\ retErr = NilErr

\* ------------------------------------------------------------ log claims
\* The lines of the k-th log source in a sequence of lines, in order.
LinesOf(k, lines) == SelectSeq(lines, LAMBDA l : l.src = k)
\* The first n lines the k-th log source emits.
Emitted(k, n) == [i \in 1..n |-> LogLine(k, ctrs[k], i)]
\* What the consumer prints for a sequence of lines: one line of text each,
\* tagged with the container when options.Multi is set.
RECURSIVE Rendered(_)
Rendered(lines) ==
    IF lines = <<>> THEN ""
    ELSE (IF options.Multi
          THEN Head(lines).cid \o " " \o Head(lines).msg
          ELSE Head(lines).msg) \o "\n" \o Rendered(Tail(lines))
\* Log returned after its consumer loop ended.
LogReturned == op = "log" /\ pc = "done" /\ closer # "none"

\* C13: in Log the channel is closed only once every container's producer
\* was started and has signalled completion; no producer sends on the closed
\* channel; for each log source the lines printed followed by the lines
\* still in the channel are the lines it sent, once each and in the order
\* sent; and when Log returns after its loop, the channel is closed and
\* empty and every line sent was printed.
C13_LogFanIn ==
    op = "log" =>
        /\ (closed \/ closer \in {"closing", "done"}) =>
            /\ Len(producers) = Len(ctrs)
            /\ \A k \in 1..Len(producers) : producers[k].state = "done"
        /\ ~panicked
        /\ \A k \in 1..Len(producers) :
            LinesOf(k, printed) \o LinesOf(k, logChannel) = Emitted(k, producers[k].sent)
        /\ \A i \in 1..Len(printed) : printed[i].src \in 1..Len(producers)
        /\ \A i \in 1..Len(logChannel) : logChannel[i].src \in 1..Len(producers)
        /\ stdout = Rendered(printed)
        /\ LogReturned =>
            /\ closed /\ logChannel = <<>> /\ retErr = NilErr
            /\ \A k \in 1..Len(producers) :
                LinesOf(k, printed) = Emitted(k, producers[k].total)

\* Log returned after printing two lines of each of two containers, a line
\* of the second before any of the first and the last of the first at the
\* end.
C13_Witness ==
    /\ LogReturned /\ Len(producers) = 2 /\ Len(printed) = 4
    /\ printed[1].src = 2 /\ printed[4].src = 1
    /\ options.Multi

\* C14: once Log has resolved its containers, the capacity of the channel is
\* at least the tail-line count times the number of resolved containers,
\* plus one.
C14_BufferCapacity ==
    op = "log" => chanCap >= cli.Tail * Len(ctrs) + 1

\* Every log source opened so far emits at most the tail-line count of lines.
BoundedReplay ==
    op = "log" => \A k \in 1..Len(producers) : producers[k].total <= cli.Tail

\* C15: a Log call whose log sources each emit at most the tail-line count
\* of lines returns.
C15_BoundedReplayTerminates == []BoundedReplay => <>(op = "log" /\ pc = "done")
====
